---- MODULE Spec2Model ----
(***************************************************************************)
(* Model of the provider orchestrator of youtube-clipper                   *)
(* (src/src/services/ai/gemini.ts, class AIService): the provider list,    *)
(* the fallback loop of process, the named selection of processWith and    *)
(* the list bookkeeping.  A call of process / processWith is an async      *)
(* function: each action below is one synchronous run of its code, from    *)
(* the call (or from the settling of the awaited provider promise) up to   *)
(* the next await or to the return / throw.                                *)
(***************************************************************************)
EXTENDS Integers, Sequences, FiniteSets, TLC

(* ------------------------------ bounds -------------------------------- *)
\* longest provider list (constructor argument and addProvider)
MaxProviders == 3
\* number of process / processWith calls started in one behaviour
MaxCalls == 2
\* number of bookkeeping calls (addProvider, removeProvider,
\* getProviderNames, hasAvailableProviders) in one behaviour
MaxConfigOps == 1

(* ----------------------------- providers ------------------------------ *)
\* Provider objects: g1 is a GeminiProvider instance, q1 a GroqProvider
\* instance.  A list may hold the same object more than once.
Obj == {"g1", "q1"}

NoObj == "none"

\* readonly name of each provider class
NameOf(o) == IF o = "q1" THEN "Groq" ELSE "Google Gemini"

\* AI_MODELS: the model a provider is constructed with
DefaultModel(o) == IF o = "q1" THEN "llama-3.3-70b-versatile" ELSE "gemini-2.5-pro"

\* typeof provider.setModel === 'function'
HasSetModel(o) == o # "q1"

\* provider.setModel(m): the provider's model becomes m
SetModel(mdl, o, m) == [mdl EXCEPT ![o] = m]

\* names a caller may pass to processWith / removeProvider
Names == {"Google Gemini", "Groq"}

\* overrideModel argument of processWith: absent, '' (nothing selected in
\* the modal) or a model name
Undefined == "<undefined>"
OverrideArgs == {Undefined, "", "gemini-2.1", "gemini-1.0"}

\* JavaScript truthiness of a string-or-undefined value
Truthy(s) == s # Undefined /\ s # ""

(* ------------------------------ strings ------------------------------- *)
\* Text returned by a provider: a sequence of characters.
Blank == " "
Contents == {<<>>, <<Blank>>, <<"a">>, <<Blank, "a">>}

RECURSIVE TrimStart(_)
TrimStart(s) == IF s = <<>> THEN <<>>
                ELSE IF Head(s) = Blank THEN TrimStart(Tail(s)) ELSE s

RECURSIVE TrimEnd(_)
TrimEnd(s) == IF s = <<>> THEN <<>>
              ELSE IF s[Len(s)] = Blank THEN TrimEnd(SubSeq(s, 1, Len(s) - 1)) ELSE s

\* String.prototype.trim
Trim(s) == TrimEnd(TrimStart(s))

\* variant of IsNonEmpty without the trim: content.length > 0
IsNonEmptyUntrimmed(content) == content # <<>>

\* content && content.trim().length > 0
IsNonEmpty(content) == content # <<>> /\ Len(Trim(content)) > 0

(* ------------------------------ errors -------------------------------- *)
\* An Error: the fixed text of its message and the text embedded in it.
Err(text, embedded) == [text |-> text, embedded |-> embedded]
NoErr == Err("", "")

\* MESSAGES.ERRORS.AI_PROCESSING(message): the aggregate failure message
AI_PROCESSING(message) == Err("AI_PROCESSING", message)

\* MESSAGES.ERRORS.MISSING_API_KEYS
MISSING_API_KEYS == Err("MISSING_API_KEYS", "")

EmptyResponse == "Empty response from AI provider"

\* messages of the errors a provider's process() rejects with
ErrMsgs == {"Invalid response format from Gemini API"}

(* ----------------------- provider responses --------------------------- *)
Resolved(content) == [t |-> "ok", content |-> content, msg |-> ""]
Rejected(msg) == [t |-> "err", content |-> <<>>, msg |-> msg]

\* how the promise returned by provider.process(prompt) can settle
Responses == {Resolved(c) : c \in Contents} \cup {Rejected(m) : m \in ErrMsgs}

VARIABLES
    svc,        \* "none" before construction, "ok", or "failed" (constructor threw)
    ctorArg,    \* the argument the constructor was called with
    ctorError,  \* the error the constructor threw
    providers,  \* AIService.providers
    model,      \* provider.model of every provider object
    calls,      \* the process / processWith calls, by call number
    configOps,  \* number of bookkeeping calls so far (addProvider,
                \* removeProvider, getProviderNames, hasAvailableProviders)
    ret,        \* what the last bookkeeping call returned
    req,        \* one call of a concrete provider's process(prompt)
    vr,         \* one call of BaseAIProvider.validateResponse
    pb,         \* one call of AIPromptService.createAnalysisPrompt
    post,       \* one call of AIPromptService.processAIResponse, and a
                \* second call on what the first returned
    vp,         \* one call of AIPromptService.validatePrompt
    plug,       \* the plugin: the vault's notes, handledTempFiles, the runs
                \* of the 'create' and 'active-leaf-change' handlers
    modal,      \* one YouTubeUrlModal: its fields, its elements, its pending
                \* timers and fetches, the runs of handleProcess
    vd          \* one YouTubeVideoService: its cache and its getVideoData call

\* the state of the orchestrator
svcVars == <<svc, ctorArg, ctorError, providers, model, calls, configOps, ret>>

\* the state of the other components, which no AIService method touches
otherVars == <<req, vr, pb, post, vp, plug, modal, vd>>

\* what a call of one component leaves alone: everything but its own state
notVr == <<svcVars, req, pb, post, vp, plug, modal, vd>>
notReq == <<svcVars, vr, pb, post, vp, plug, modal, vd>>
notPb == <<svcVars, req, vr, post, vp, plug, modal, vd>>
notPost == <<svcVars, req, vr, pb, vp, plug, modal, vd>>
notVp == <<svcVars, req, vr, pb, post, plug, modal, vd>>
notPlug == <<svcVars, req, vr, pb, post, vp, modal, vd>>
notModal == <<svcVars, req, vr, pb, post, vp, plug, vd>>
notVd == <<svcVars, req, vr, pb, post, vp, plug, modal>>

vars == <<svcVars, otherVars>>

CallIds == 1..MaxCalls

NoResult == [content |-> <<>>, provider |-> "", model |-> ""]

\* a call that has not been made yet
IdleCall == [op |-> "idle", pc |-> "idle", it |-> 0, cur |-> NoObj,
             lastError |-> "", hasLastError |-> FALSE,
             result |-> NoResult, error |-> NoErr, log |-> <<>>,
             name |-> "", override |-> Undefined, snap |-> <<>>]

\* return value of a bookkeeping call: the method, and the array or the
\* boolean it returned
Returned(op, names, flag) == [op |-> op, names |-> names, flag |-> flag]
NoRet == Returned("none", <<>>, FALSE)

\* constructor arguments: undefined, or an array of providers
NullArg == [isNull |-> TRUE, list |-> <<>>]
ListArg(ps) == [isNull |-> FALSE, list |-> ps]
Lists == UNION {[1..n -> Obj] : n \in 0..MaxProviders}
CtorArgs == {NullArg} \cup {ListArg(ps) : ps \in Lists}

\* no AIService constructed yet
SvcInit ==
    /\ svc = "none"
    /\ ctorArg = NullArg
    /\ ctorError = NoErr
    /\ providers = <<>>
    /\ model = [o \in Obj |-> DefaultModel(o)]
    /\ calls = [c \in CallIds |-> IdleCall]
    /\ configOps = 0
    /\ ret = NoRet

\* no provider request made
ReqIdle == [pc |-> "idle", backend |-> "", prompt |-> <<>>, body |-> <<>>,
            net |-> "none", status |-> 0, data |-> [t |-> "undefined"],
            did |-> <<>>, content |-> <<>>, error |-> NoErr,
            inst |-> [backend |-> "", apiKey |-> Undefined, made |-> FALSE],
            response |-> IdleCall]

\* validateResponse not called
VrIdle == [pc |-> "idle"]

\* createAnalysisPrompt not called
PbIdle == [pc |-> "idle"]

\* processAIResponse not called
PostIdle == [pc |-> "idle"]

\* validatePrompt not called
VpIdle == [pc |-> "idle"]

\* the notes the vault can hold
NotePaths == {"YouTube Clip - 1.md", "n.md"}
Absent == <<"absent">>

\* what a URL modal is opened for: a note, or a URI of the protocol handler
ProtocolUri == "obsidian://youtube-clipper"
ModalSources == NotePaths \cup {ProtocolUri}

\* the plugin after onload: no note of the extension yet, nothing handled,
\* no handler run, no modal opened
PlugIdle == [isUnloading |-> FALSE, handledTempFiles |-> {},
             files |-> [p \in NotePaths |-> Absent],
             handlers |-> <<>>, operationCount |-> 0,
             opened |-> [p \in ModalSources |-> 0],
             videos |-> <<>>]

\* a YouTubeUrlModal that has not been opened: the field initialisers
ModalClosed ==
    [pc |-> "closed", url |-> <<>>, isProcessing |-> FALSE,
     processDisabled |-> FALSE, processText |-> "Process",
     inputDisabled |-> FALSE, openVisible |-> FALSE, header |-> "Process Video",
     processedFilePath |-> "",
     validationTimer |-> [set |-> FALSE, url |-> <<>>],
     lastValidUrl |-> [defined |-> FALSE, url |-> <<>>], lastValidResult |-> FALSE,
     fetchInProgress |-> FALSE, thumbnail |-> FALSE,
     steps |-> [i \in 0..3 |-> "pending"], currentStepIndex |-> 0,
     runs |-> <<>>, onProcessCalls |-> <<>>]

\* the namespaces of getCacheKey, and a key that holds nothing
CacheKeys == {"video-data", "metadata", "description"}
NotCached == [t |-> "undefined"]

\* no call of getVideoData running: awaited promises are "none" (not
\* made), "pending", "resolved" or "rejected"
NoFetch == [pc |-> "idle", videoId |-> "", metadata |-> "none", description |-> "none",
            title |-> "", text |-> "", pageFailed |-> FALSE, sets |-> <<>>,
            result |-> NotCached, error |-> ""]

\* a YouTubeVideoService with an empty cache
VdIdle == [cache |-> [k \in CacheKeys |-> NotCached], call |-> NoFetch, made |-> 0]

OtherIdle ==
    /\ req = ReqIdle /\ vr = VrIdle /\ pb = PbIdle /\ post = PostIdle
    /\ vp = VpIdle /\ plug = PlugIdle /\ modal = ModalClosed /\ vd = VdIdle

Init == SvcInit /\ OtherIdle

(* ---------------------------- constructor ----------------------------- *)
\* variant of CtorRejects without the length test: !providers
CtorRejectsNullOnly(arg) == arg.isNull

\* !providers || providers.length === 0
CtorRejects(arg) == arg.isNull \/ Len(arg.list) = 0

Constructor(arg) ==
    /\ svc = "none"
    /\ ctorArg' = arg
    /\ IF CtorRejects(arg)
       THEN /\ svc' = "failed"
            /\ ctorError' = MISSING_API_KEYS
            /\ UNCHANGED providers
       ELSE /\ svc' = "ok"
            /\ providers' = arg.list
            /\ UNCHANGED ctorError
    /\ UNCHANGED <<model, calls, configOps, ret, otherVars>>

(* ------------------------------ process ------------------------------- *)
\* prompt argument of process: undefined, '' or a prompt text
Prompts == {Undefined, "", "Summarize this video"}

\* !prompt || typeof prompt !== 'string'
PromptRejected(prompt) == ~Truthy(prompt)

\* the call numbers are used in order
NextCall(c) == /\ calls[c].op = "idle"
               /\ \A d \in CallIds : d < c => calls[d].op # "idle"

\* The model a provider's request is addressed to.  GeminiProvider posts to
\* API_ENDPOINTS.GEMINI, whose path names the model, and its body names
\* none; GroqProvider posts a body with model: this.model.
API_ENDPOINTS_GEMINI_MODEL == "gemini-2.5-pro"
Addressed(o, mdl) == IF o = "q1" THEN mdl[o] ELSE API_ENDPOINTS_GEMINI_MODEL

\* The log of a call is its history of provider invocations: the provider
\* object invoked, the provider's model when it was invoked, and how the
\* invocation ended: "pending" while the request is in flight, "content"
\* with the text when it resolved to text that is not blank, else the message
\* of the failure (the rejection's message, or the empty-response message).
Invocation(o, mdl) ==
    [obj |-> o, model |-> mdl[o], target |-> Addressed(o, mdl),
     out |-> "pending", content |-> <<>>]

Outcome(res) == IF res.t = "err" THEN res.msg
                ELSE IF Trim(res.content) = <<>> THEN EmptyResponse ELSE "content"

\* the last log entry, settled with res
Settle(log, res) ==
    [log EXCEPT ![Len(log)].out = Outcome(res),
                ![Len(log)].content = IF Outcome(res) = "content" THEN res.content ELSE <<>>]

\* message of the error a settled invocation counts as (the rejection, or
\* 'Empty response from AI provider' for empty content)
FailureMsg(res) == IF res.t = "err" THEN res.msg ELSE EmptyResponse

\* lastError ? AI_PROCESSING(lastError.message) : 'All AI providers failed ...'
AggregateError(hasLastError, lastError) ==
    IF hasLastError THEN AI_PROCESSING(lastError)
    ELSE Err("All AI providers failed to process the request", "")

\* variant of Catch that keeps the first error: lastError = lastError || error
CatchKeepFirst(call, msg) ==
    IF call.hasLastError THEN call
    ELSE [call EXCEPT !.lastError = msg, !.hasLastError = TRUE]

\* lastError = error as Error
Catch(call, msg) == [call EXCEPT !.lastError = msg, !.hasLastError = TRUE]

\* provider === this.providers[this.providers.length - 1]
IsLastProvider(ps, o) == Len(ps) > 0 /\ o = ps[Len(ps)]

\* throw new Error(errorMessage) after the loop
ThrowAggregate(call) ==
    [call EXCEPT !.pc = "threw", !.cur = NoObj,
                 !.error = AggregateError(call.hasLastError, call.lastError)]

\* One step of `for (const provider of this.providers)`: the array iterator
\* holds an index into the live array; when it is past the end the loop is
\* left and the aggregate error is thrown, else the provider at the index is
\* invoked and the call suspends at `await provider.process(prompt)`.
\* variant of LoopStep that starts every remaining provider at once
\* (providers raced instead of awaited one by one)
RECURSIVE InvokeAll(_, _, _, _)
InvokeAll(log, ps, mdl, i) ==
    IF i > Len(ps) THEN log
    ELSE InvokeAll(Append(log, Invocation(ps[i], mdl)), ps, mdl, i + 1)

LoopStepRace(call, ps, mdl) ==
    IF call.it < Len(ps)
    THEN [call EXCEPT !.it = Len(ps), !.cur = ps[Len(ps)], !.pc = "await",
                      !.log = InvokeAll(call.log, ps, mdl, call.it + 1)]
    ELSE ThrowAggregate(call)

LoopStep(call, ps, mdl) ==
    IF call.it < Len(ps)
    THEN [call EXCEPT !.it = call.it + 1, !.cur = ps[call.it + 1], !.pc = "await",
                      !.log = Append(call.log, Invocation(ps[call.it + 1], mdl))]
    ELSE ThrowAggregate(call)

\* return { content, provider: provider.name, model: provider.model }
Return(call, content, o, mdl) ==
    [call EXCEPT !.pc = "returned", !.cur = NoObj,
                 !.result = [content |-> content, provider |-> NameOf(o), model |-> mdl[o]]]

\* AIService.process(prompt), up to the first await
Process(c, prompt) ==
    /\ svc = "ok"
    /\ NextCall(c)
    /\ calls' = [calls EXCEPT ![c] =
          IF PromptRejected(prompt)
          THEN [IdleCall EXCEPT !.op = "process", !.pc = "threw",
                                !.error = Err("Valid prompt is required", "")]
          ELSE LoopStep([IdleCall EXCEPT !.op = "process", !.snap = providers],
                        providers, model)]
    /\ UNCHANGED <<svc, ctorArg, ctorError, providers, model, configOps, ret, otherVars>>

\* The loop body after `await provider.process(prompt)` settled with res,
\* and the loop up to the next await: a non-empty content is returned at
\* once; anything else is caught, and the loop goes on unless the provider
\* is the last element of the list.
\* AfterSettleKeepGoing is the variant that does not return at the first
\* success but keeps the result and goes on through the list.
AfterSettleKeepGoing(call, res, ps, mdl) ==
    IF res.t = "ok" /\ IsNonEmpty(res.content)
    THEN LET got == Return(call, res.content, call.cur, mdl)
         IN IF call.it < Len(ps) THEN [LoopStep(got, ps, mdl) EXCEPT !.pc = "await"] ELSE got
    ELSE LET caught == Catch(call, FailureMsg(res))
         IN IF IsLastProvider(ps, call.cur)
            THEN (IF call.result = NoResult THEN ThrowAggregate(caught)
                  ELSE [caught EXCEPT !.pc = "returned", !.cur = NoObj])
            ELSE LoopStep(caught, ps, mdl)
AfterSettle(call, res, ps, mdl) ==
    IF res.t = "ok" /\ IsNonEmpty(res.content)
    THEN Return(call, res.content, call.cur, mdl)
    ELSE LET caught == Catch(call, FailureMsg(res))
         IN IF IsLastProvider(ps, call.cur)
            THEN ThrowAggregate(caught)
            ELSE LoopStep(caught, ps, mdl)

\* AIService.process resumed by the settling of provider.process(prompt)
ProcessResume(c, res) ==
    /\ calls[c].op = "process"
    /\ calls[c].pc = "await"
    /\ calls' = [calls EXCEPT ![c] =
          AfterSettle([calls[c] EXCEPT !.log = Settle(calls[c].log, res)],
                      res, providers, model)]
    /\ UNCHANGED <<svc, ctorArg, ctorError, providers, model, configOps, ret, otherVars>>

(* ---------------------------- processWith ----------------------------- *)
\* index of the first provider named name, 0 when there is none
\* (this.providers.find / findIndex)
RECURSIVE FindFrom(_, _, _)
FindFrom(ps, name, i) ==
    IF i > Len(ps) THEN 0
    ELSE IF NameOf(ps[i]) = name THEN i ELSE FindFrom(ps, name, i + 1)

\* variant of FindProvider that falls back to the first provider
FindProviderOrFirst(ps, name) ==
    IF FindFrom(ps, name, 1) = 0 /\ Len(ps) > 0 THEN 1 ELSE FindFrom(ps, name, 1)
FindProvider(ps, name) == FindFrom(ps, name, 1)

\* if (overrideModel && typeof provider.setModel === 'function') provider.setModel(overrideModel)
ApplyOverride(mdl, o, override) ==
    IF Truthy(override) /\ HasSetModel(o) THEN SetModel(mdl, o, override) ELSE mdl

\* variant of ProcessWithCatch that rethrows the provider's error: throw error
ProcessWithCatchRaw(msg) == Err(msg, "")

\* catch (error) { throw new Error(AI_PROCESSING(error.message)) }
ProcessWithCatch(msg) == AI_PROCESSING(msg)

\* AIService.processWith(providerName, prompt, overrideModel), up to the await
ProcessWith(c, name, override) ==
    /\ svc = "ok"
    /\ NextCall(c)
    /\ LET i == FindProvider(providers, name)
           call == [IdleCall EXCEPT !.op = "processWith", !.name = name,
                                    !.override = override]
       IN IF i = 0
          THEN /\ calls' = [calls EXCEPT ![c] =
                     [call EXCEPT !.pc = "threw",
                                  !.error = Err("AI provider not found: ", name)]]
               /\ UNCHANGED model
          ELSE LET o == providers[i]
               IN /\ model' = ApplyOverride(model, o, override)
                  /\ calls' = [calls EXCEPT ![c] =
                        [call EXCEPT !.pc = "await", !.cur = o, !.it = i,
                                     !.log = <<Invocation(o, model')>>]]
    /\ UNCHANGED <<svc, ctorArg, ctorError, providers, configOps, ret, otherVars>>

\* variant of ProcessWithFailed that goes on to the provider after the named
\* one, as the loop of process does
ProcessWithFallsBack(call, res, ps, mdl) ==
    IF call.it < Len(ps)
    THEN [call EXCEPT !.it = call.it + 1, !.cur = ps[call.it + 1],
                      !.log = Append(call.log, Invocation(ps[call.it + 1], mdl))]
    ELSE [call EXCEPT !.pc = "threw", !.cur = NoObj,
                      !.error = ProcessWithCatch(FailureMsg(res))]

\* the named provider failed or returned nothing: the error is caught and
\* the aggregate error thrown; the list ps is not looked at again
ProcessWithFailed(call, res, ps, mdl) ==
    [call EXCEPT !.pc = "threw", !.cur = NoObj,
                 !.error = ProcessWithCatch(FailureMsg(res))]

\* AIService.processWith resumed by the settling of provider.process(prompt)
ProcessWithResume(c, res) ==
    /\ calls[c].op = "processWith"
    /\ calls[c].pc = "await"
    /\ LET call == [calls[c] EXCEPT !.log = Settle(calls[c].log, res)]
           o == call.cur
       IN calls' = [calls EXCEPT ![c] =
             IF res.t = "ok" /\ IsNonEmpty(res.content)
             THEN Return(call, res.content, o, model)
             ELSE ProcessWithFailed(call, res, providers, model)]
    /\ UNCHANGED <<svc, ctorArg, ctorError, providers, model, configOps, ret, otherVars>>

(* ---------------------------- bookkeeping ----------------------------- *)
\* this.providers.map(p => p.name)
ProviderNames(ps) == [i \in 1..Len(ps) |-> NameOf(ps[i])]

\* AIService.hasAvailableProviders()
HasAvailableProviders ==
    /\ svc = "ok"
    /\ configOps < MaxConfigOps
    /\ ret' = Returned("hasAvailableProviders", <<>>, Len(providers) > 0)
    /\ configOps' = configOps + 1
    /\ UNCHANGED <<svc, ctorArg, ctorError, providers, model, calls, otherVars>>

\* AIService.getProviderNames()
GetProviderNames ==
    /\ svc = "ok"
    /\ configOps < MaxConfigOps
    /\ ret' = Returned("getProviderNames", ProviderNames(providers), FALSE)
    /\ configOps' = configOps + 1
    /\ UNCHANGED <<svc, ctorArg, ctorError, providers, model, calls, otherVars>>

\* variant of Push that inserts at the front: this.providers.unshift(provider)
Unshift(ps, o) == <<o>> \o ps

\* this.providers.push(provider)
Push(ps, o) == Append(ps, o)

\* AIService.addProvider(provider)
AddProvider(o) ==
    /\ svc = "ok"
    /\ configOps < MaxConfigOps
    /\ Len(providers) < MaxProviders
    /\ providers' = Push(providers, o)
    /\ ret' = Returned("addProvider", <<>>, FALSE)
    /\ configOps' = configOps + 1
    /\ UNCHANGED <<svc, ctorArg, ctorError, model, calls, otherVars>>

\* this.providers.splice(index, 1)
Splice(ps, i) == SubSeq(ps, 1, i - 1) \o SubSeq(ps, i + 1, Len(ps))

\* AIService.removeProvider(providerName)
RemoveProvider(name) ==
    /\ svc = "ok"
    /\ configOps < MaxConfigOps
    /\ LET i == FindProvider(providers, name)
       IN /\ providers' = IF i # 0 THEN Splice(providers, i) ELSE providers
          /\ ret' = Returned("removeProvider", <<name>>, i # 0)
    /\ configOps' = configOps + 1
    /\ UNCHANGED <<svc, ctorArg, ctorError, model, calls, otherVars>>

Next ==
    \/ \E arg \in CtorArgs : Constructor(arg)
    \/ \E c \in CallIds, prompt \in Prompts : Process(c, prompt)
    \/ \E c \in CallIds, res \in Responses : ProcessResume(c, res)
    \/ \E c \in CallIds, name \in Names, override \in OverrideArgs : ProcessWith(c, name, override)
    \/ \E c \in CallIds, res \in Responses : ProcessWithResume(c, res)
    \/ \E o \in Obj : AddProvider(o)
    \/ \E name \in Names : RemoveProvider(name)
    \/ GetProviderNames
    \/ HasAvailableProviders

Spec == Init /\ [][Next]_vars

(* ============================ JSON values ============================= *)
\* what response.json() can yield, and what a property read can yield
JUndefined == [t |-> "undefined"]
JNull == [t |-> "null"]
JBool(b) == [t |-> "boolean", b |-> b]
JNumber(n) == [t |-> "number", n |-> n]
JString(s) == [t |-> "string", s |-> s]
JArray(a) == [t |-> "array", a |-> a]
JObject(f) == [t |-> "object", f |-> f]
EmptyObject == JObject([k \in {} |-> JNull])

\* typeof v === 'object'
TypeofObject(v) == v.t \in {"object", "array", "null"}

\* !v
Falsy(v) ==
    \/ v.t \in {"undefined", "null"}
    \/ v.t = "boolean" /\ ~v.b
    \/ v.t = "number" /\ v.n = 0
    \/ v.t = "string" /\ v.s = <<>>

\* the array index a property key denotes, -1 when it denotes none
Index(key) == CASE key = "0" -> 0 [] key = "1" -> 1 [] OTHER -> -1

\* key in v, for an object or an array v (own properties)
In(key, v) ==
    IF v.t = "array" THEN Index(key) >= 0 /\ Index(key) < Len(v.a)
    ELSE key \in DOMAIN v.f

\* v[key], for a key that is in v
Get(v, key) == IF v.t = "array" THEN v.a[Index(key) + 1] ELSE v.f[key]

(* -------------------------- validateResponse -------------------------- *)
\* variant of Defined that asks for a truthy value: return !!current
DefinedTruthy(v) == ~Falsy(v)

\* current !== null && current !== undefined
Defined(v) == v.t # "null" /\ v.t # "undefined"

\* the loop of validateResponse from the i-th key on, and its return
RECURSIVE ValidateFrom(_, _, _)
ValidateFrom(current, requiredPath, i) ==
    IF i > Len(requiredPath) THEN Defined(current)
    ELSE IF Falsy(current) \/ ~TypeofObject(current) \/ ~In(requiredPath[i], current)
         THEN FALSE
         ELSE ValidateFrom(Get(current, requiredPath[i]), requiredPath, i + 1)

\* BaseAIProvider.validateResponse(response, requiredPath)
ValidateResponse(response, requiredPath) == ValidateFrom(response, requiredPath, 1)

\* { a: { b: [ { c: "x" } ] } }
Nested(leaves) == JObject([a |-> JObject([b |-> JArray(leaves)])])
Example == Nested(<<JObject([c |-> JString(<<"x">>)])>>)

\* the values validateResponse is called on
Values ==
    { JUndefined, JNull, JBool(FALSE), JNumber(0), JNumber(7), JString(<<>>),
      JString(<<"x">>), EmptyObject, JArray(<<>>), JArray(<<JNull, JString(<<"x">>)>>),
      JObject([a |-> JNull]), JObject([a |-> JUndefined]), JObject([a |-> JString(<<>>)]),
      JObject([a |-> JNumber(0), b |-> JBool(FALSE)]),
      Example, Nested(<<>>),
      Nested(<<JObject([c |-> JString(<<>>)]), JObject([c |-> JNull])>>) }

MaxPath == 4
Keys == {"a", "b", "c", "0", "1"}
Paths == UNION {[1..n -> Keys] : n \in 0..MaxPath}

\* a call validateResponse(response, requiredPath)
Validate(response, requiredPath) ==
    /\ vr.pc = "idle"
    /\ vr' = [pc |-> "done", response |-> response, requiredPath |-> requiredPath,
              result |-> ValidateResponse(response, requiredPath)]
    /\ UNCHANGED notVr

NextValidate ==
    \E response \in (IF vr.pc = "idle" THEN Values ELSE {}), requiredPath \in Paths :
        Validate(response, requiredPath)

SpecValidate == Init /\ [][NextValidate]_vars

(* ===================== GeminiProvider, GroqProvider ==================== *)
\* Prompts are sequences of words; a word is a string that no marker of
\* createRequestBody cuts through.
MaxPrompt == 3
Words == {"x", " ", "YouTube", "video", "YOUTU.BE/", "youtube.com/"}
Texts == UNION {[1..n -> Words] : n \in 0..MaxPrompt}

\* word.toLowerCase()
LowerWord(w) ==
    CASE w = "YouTube" -> "youtube"
      [] w = "YOUTU.BE/" -> "youtu.be/"
      [] OTHER -> w

\* text.toLowerCase()
ToLowerCase(text) == [i \in 1..Len(text) |-> LowerWord(text[i])]

\* text.includes(marker)
Includes(text, marker) ==
    \E i \in 0..(Len(text) - Len(marker)) : SubSeq(text, i + 1, i + Len(marker)) = marker

\* variant of IsVideoAnalysis that looks for the two host fragments only
IsVideoAnalysisHosts(prompt) ==
    LET normalizedPrompt == ToLowerCase(prompt)
    IN \/ Includes(normalizedPrompt, <<"youtu.be/">>)
       \/ Includes(normalizedPrompt, <<"youtube.com/">>)

\* isVideoAnalysis of GeminiProvider.createRequestBody
IsVideoAnalysis(prompt) ==
    LET normalizedPrompt == ToLowerCase(prompt)
    IN \/ Includes(normalizedPrompt, <<"youtube", " ", "video">>)
       \/ Includes(normalizedPrompt, <<"youtu.be/">>)
       \/ Includes(normalizedPrompt, <<"youtube.com/">>)

\* baseConfig of GeminiProvider.createRequestBody
BaseConfig(prompt) ==
    [contents |-> prompt,
     generationConfig |-> [temperature |-> "0.7", maxOutputTokens |-> 4000, candidateCount |-> 1]]

\* { ...baseConfig, useAudioVideoTokens: true, systemInstruction: {...} }
VideoConfig(prompt) ==
    [contents |-> prompt,
     generationConfig |-> [temperature |-> "0.7", maxOutputTokens |-> 4000, candidateCount |-> 1],
     useAudioVideoTokens |-> TRUE,
     systemInstruction |-> "You are an expert video content analyzer. ..."]

\* GroqProvider.createRequestBody(prompt)
GroqBody(prompt) ==
    [model |-> DefaultModel("q1"),
     messages |-> <<[role |-> "system", content |-> <<"You are an expert content analyzer ...">>],
                    [role |-> "user", content |-> prompt]>>,
     max_tokens |-> 2000, temperature |-> "0.7"]

\* createRequestBody(prompt) of the two providers
CreateRequestBody(backend, prompt) ==
    IF backend = "groq" THEN GroqBody(prompt)
    ELSE IF IsVideoAnalysis(prompt) THEN VideoConfig(prompt) ELSE BaseConfig(prompt)

Backends == {"gemini", "groq"}
BackendName(backend) == IF backend = "gemini" THEN NameOf("g1") ELSE NameOf("q1")

\* the statuses a backend answers with; response.ok
Statuses == {200, 401, 404, 429, 500}
Ok(status) == status >= 200 /\ status <= 299

\* MESSAGES.ERRORS.GEMINI_INVALID_KEY, MESSAGES.ERRORS.GROQ_MODEL_NOT_FOUND
GEMINI_INVALID_KEY == Err("Invalid Gemini API key", "")
GROQ_MODEL_NOT_FOUND == Err("Groq model not found", "")

\* ErrorHandler.handleAPIError(response, this.name): always throws
HandleAPIError(status, name) == Err("API error from " \o name, ToString(status))

\* variant of StatusError without the test of response.ok
StatusErrorSpecificOnly(backend, status) ==
    IF backend = "gemini" /\ status = 401 THEN GEMINI_INVALID_KEY
    ELSE IF backend = "groq" /\ status = 404 THEN GROQ_MODEL_NOT_FOUND
    ELSE NoErr

\* the error the status tests of process throw, NoErr when they pass
StatusError(backend, status) ==
    IF backend = "gemini" /\ status = 401 THEN GEMINI_INVALID_KEY
    ELSE IF backend = "groq" /\ status = 404 THEN GROQ_MODEL_NOT_FOUND
    ELSE IF ~Ok(status) THEN HandleAPIError(status, BackendName(backend))
    ELSE NoErr

\* a response body that is not JSON: response.json() rejects
Unparsable == [t |-> "unparsable"]

\* { candidates: [ { content: { parts: [ { text } ] } } ] }
GeminiData(text) ==
    JObject([candidates |-> JArray(<<JObject([content |->
        JObject([parts |-> JArray(<<JObject([text |-> text])>>)])])>>)])

\* { choices: [ { message } ] }
GroqData(message) == JObject([choices |-> JArray(<<JObject([message |-> message])>>)])

\* the response bodies of the backends
Bodies ==
    { GeminiData(JString(<<"a">>)), GeminiData(JString(<<Blank, "a">>)),
      GeminiData(JString(<<>>)), GeminiData(JNull), GeminiData(JNumber(7)),
      JObject([candidates |-> JArray(<<>>)]),
      GroqData(JObject([content |-> JString(<<"a">>)])),
      GroqData(JObject([content |-> JString(<<Blank, "a">>)])),
      GroqData(JObject([role |-> JString(<<"a">>)])),
      GroqData(JObject([content |-> JNull])),
      GroqData(JNull),
      JObject([choices |-> JArray(<<>>)]),
      JObject([error |-> JString(<<"a">>)]),
      Unparsable }

\* the path each process passes to validateResponse
GeminiPath == <<"candidates", "0", "content", "parts", "0", "text">>
GroqPath == <<"choices", "0", "message">>
ValidationPath(backend) == IF backend = "gemini" THEN GeminiPath ELSE GroqPath

\* 'Invalid response format from Gemini API' / '... from Groq API'
InvalidFormat(backend) ==
    IF backend = "gemini" THEN Err("Invalid response format from Gemini API", "")
    ELSE Err("Invalid response format from Groq API", "")

\* v[key] where v may be any defined value: undefined unless v has the key
Prop(v, key) == IF v.t \in {"object", "array"} /\ In(key, v) THEN Get(v, key) ELSE JUndefined

\* response.candidates[0].content.parts[0].text, response.choices[0].message.content
RECURSIVE Read(_, _)
Read(v, path) == IF path = <<>> THEN v ELSE Read(Prop(v, Head(path)), Tail(path))
ContentPath(backend) == IF backend = "gemini" THEN GeminiPath ELSE GroqPath \o <<"content">>

\* the keys a provider is constructed with
ApiKeys == {Undefined, "", "key"}

\* variant of ApiKeyMissing that only looks for a key that was not given:
\* apiKey === undefined
ApiKeyUndefined(apiKey) == apiKey = Undefined

\* !apiKey
ApiKeyMissing(apiKey) == ~Truthy(apiKey)

\* new GeminiProvider(apiKey) / new GroqProvider(apiKey): the constructor
\* of BaseAIProvider throws when the key is missing
NewProvider(backend, apiKey) ==
    /\ req.pc = "idle"
    /\ req' = IF ApiKeyMissing(apiKey)
              THEN [req EXCEPT !.pc = "ctorThrew",
                               !.inst = [backend |-> backend, apiKey |-> apiKey, made |-> FALSE],
                               !.error = Err("API key is required for AI provider", "")]
              ELSE [req EXCEPT !.pc = "ready",
                               !.inst = [backend |-> backend, apiKey |-> apiKey, made |-> TRUE]]
    /\ UNCHANGED notReq

\* GeminiProvider.process / GroqProvider.process up to `await fetch(...)`
ProviderProcess(prompt) ==
    /\ req.pc = "ready"
    /\ req' = [req EXCEPT !.pc = "fetch", !.backend = req.inst.backend, !.prompt = prompt,
                          !.body = CreateRequestBody(req.inst.backend, prompt),
                          !.net = "pending"]
    /\ UNCHANGED notReq

\* the backend answers the request
BackendResponds(status, data) ==
    /\ req.pc = "fetch" /\ req.net = "pending"
    /\ req' = [req EXCEPT !.net = "arrived", !.status = status, !.data = data]
    /\ UNCHANGED notReq

\* the request fails in the network: fetch rejects
NetworkFails ==
    /\ req.pc = "fetch" /\ req.net = "pending"
    /\ req' = [req EXCEPT !.net = "failed"]
    /\ UNCHANGED notReq

Threw(r, did, error) == [r EXCEPT !.pc = "threw", !.did = did, !.error = error]

\* variant of ExtractContent that returns the text as the backend sent it
ExtractContentRaw(r, did) ==
    LET content == Read(r.data, ContentPath(r.backend))
    IN IF Falsy(content) THEN [r EXCEPT !.pc = "returned", !.did = did, !.content = <<>>]
       ELSE IF content.t = "string"
            THEN [r EXCEPT !.pc = "returned", !.did = did, !.content = content.s]
            ELSE Threw(r, did, Err("content.trim is not a function", ""))

\* extractContent(data): content ? content.trim() : ''
ExtractContent(r, did) ==
    LET content == Read(r.data, ContentPath(r.backend))
    IN IF Falsy(content) THEN [r EXCEPT !.pc = "returned", !.did = did, !.content = <<>>]
       ELSE IF content.t = "string"
            THEN [r EXCEPT !.pc = "returned", !.did = did, !.content = Trim(content.s)]
            ELSE Threw(r, did, Err("content.trim is not a function", ""))

\* process after `await fetch(...)` settled, to its end
AfterFetch(r) ==
    IF r.net = "failed" THEN Threw(r, <<>>, Err("Failed to fetch", ""))
    ELSE IF StatusError(r.backend, r.status) # NoErr
         THEN Threw(r, <<>>, StatusError(r.backend, r.status))
    ELSE IF r.data = Unparsable
         THEN Threw(r, <<"json">>, Err("Unexpected token in JSON", ""))
    ELSE IF ~ValidateResponse(r.data, ValidationPath(r.backend))
         THEN Threw(r, <<"json", "validateResponse">>, InvalidFormat(r.backend))
    ELSE ExtractContent(r, <<"json", "validateResponse", "extractContent">>)

\* the continuation of process runs once fetch has settled
Continue ==
    /\ req.pc = "fetch" /\ req.net # "pending"
    /\ req' = AfterFetch(req)
    /\ UNCHANGED notReq

\* the provider object of a backend
ProviderObj(backend) == IF backend = "gemini" THEN "g1" ELSE "q1"

\* how `await provider.process(prompt)` settles for the caller: resolved with
\* the returned content, or rejected with the error thrown
ProviderResult(r) ==
    IF r.pc = "returned" THEN Resolved(r.content) ELSE Rejected(r.error.text)

\* AIService.process(prompt) on a service holding this provider only, from
\* its invocation of the provider to its end
ServiceProcess(r, mdl) ==
    LET ps == <<ProviderObj(r.backend)>>
        started == LoopStep([IdleCall EXCEPT !.op = "process", !.snap = ps], ps, mdl)
        res == ProviderResult(r)
    IN AfterSettle([started EXCEPT !.log = Settle(started.log, res)], res, ps, mdl)

\* the AIService call that invoked the provider is resumed by the end of
\* the provider's process
ServiceResumes ==
    /\ req.pc \in {"returned", "threw"}
    /\ req.prompt # <<>>     \* process throws on an empty prompt before any invocation
    /\ req.response = IdleCall
    /\ req' = [req EXCEPT !.response = ServiceProcess(req, model)]
    /\ UNCHANGED notReq

NextProvider ==
    \/ ServiceResumes
    \/ \E backend \in Backends, apiKey \in ApiKeys : NewProvider(backend, apiKey)
    \/ \E prompt \in Texts : ProviderProcess(prompt)
    \/ \E status \in Statuses, data \in Bodies : BackendResponds(status, data)
    \/ NetworkFails
    \/ Continue

SpecProvider == Init /\ [][NextProvider]_vars

\* The continuation of an awaited promise always runs once the promise has
\* settled; nothing makes a backend answer.
FairProvider == SpecProvider /\ WF_vars(Continue)

\* the value reached by following path through v key by key, where only
\* objects and arrays have members; Missing when a key cannot be followed
Missing == [t |-> "missing"]
RECURSIVE Reach(_, _)
Reach(v, path) ==
    IF path = <<>> THEN v
    ELSE IF v.t \in {"object", "array"} /\ In(Head(path), v)
         THEN Reach(Get(v, Head(path)), Tail(path))
         ELSE Missing

\* C14: validateResponse(value, path) is true exactly when every key or
\* index of the path can be followed in order through the value and the
\* value reached is neither null nor undefined (a defined falsy value
\* counts as present); for { a: { b: [ { c: "x" } ] } } it is true for the
\* path [a, b, 0, c] and false for [a, b, 1, c].
C14_ValidateResponse ==
    vr.pc = "done" =>
        /\ vr.result <=> Reach(vr.response, vr.requiredPath).t \notin {"missing", "null", "undefined"}
        /\ (vr.response = Example /\ vr.requiredPath = <<"a", "b", "0", "c">>) => vr.result
        /\ (vr.response = Example /\ vr.requiredPath = <<"a", "b", "1", "c">>) => ~vr.result

\* the path [a, b, 0, c] was accepted on a value whose leaf there is the
\* empty string
C14_Witness ==
    /\ vr.pc = "done" /\ vr.result
    /\ vr.requiredPath = <<"a", "b", "0", "c">>
    /\ Reach(vr.response, vr.requiredPath) = JString(<<>>)

(* =========================== AIPromptService ========================== *)
\* Texts are sequences of pieces; a piece is a string that no pattern
\* searched for cuts through.

\* number of places where needle occurs in text
Count(text, needle) ==
    Cardinality({i \in 1..(Len(text) - Len(needle) + 1) :
                    SubSeq(text, i, i + Len(needle) - 1) = needle})

\* text.indexOf(pat) + 1
IndexOf(text, pat) ==
    IF Count(text, pat) = 0 THEN 0
    ELSE CHOOSE i \in 1..(Len(text) - Len(pat) + 1) :
            /\ SubSeq(text, i, i + Len(pat) - 1) = pat
            /\ \A j \in 1..(i - 1) : SubSeq(text, j, j + Len(pat) - 1) # pat

\* what a replacement string stands for: $$ is a dollar sign, $& the match,
\* $` the text before the match, $' the text after it
RECURSIVE Expand(_, _, _, _)
Expand(replacement, match, before, after) ==
    IF replacement = <<>> THEN <<>>
    ELSE LET piece == Head(replacement)
             rest == Expand(Tail(replacement), match, before, after)
         IN CASE piece = "$$" -> <<"$">> \o rest
              [] piece = "$&" -> match \o rest
              [] piece = "$`" -> before \o rest
              [] piece = "$'" -> after \o rest
              [] OTHER -> <<piece>> \o rest

\* text.replace(pat, replacement) for a string pat: the first occurrence
StringReplace(text, pat, replacement) ==
    LET i == IndexOf(text, pat)
        before == SubSeq(text, 1, i - 1)
        after == SubSeq(text, i + Len(pat), Len(text))
    IN IF i = 0 THEN text
       ELSE before \o Expand(replacement, pat, before, after) \o after

\* variant of BASE_TEMPLATE that does not name the kind of video
BASE_TEMPLATE_Neutral ==
    <<"Analyze this ", "video", " ", "clip", " using comprehensive multimodal analysis ...",
      "Title: ", "{{TITLE}}", "URL: ", "{{URL}}", "Description/Context: ", "{{DESCRIPTION}}",
      "MULTIMODAL ANALYSIS INSTRUCTIONS: ...">>

\* AIPromptService.BASE_TEMPLATE
BASE_TEMPLATE ==
    <<"Analyze this ", "YouTube", " ", "video", " using comprehensive multimodal analysis ...",
      "Title: ", "{{TITLE}}", "URL: ", "{{URL}}", "Description/Context: ", "{{DESCRIPTION}}",
      "MULTIMODAL ANALYSIS INSTRUCTIONS: ...">>

\* baseContent of createAnalysisPrompt
BaseContent(title, videoUrl, description) ==
    StringReplace(
        StringReplace(
            StringReplace(BASE_TEMPLATE, <<"{{TITLE}}">>, title),
            <<"{{URL}}">>, videoUrl),
        <<"{{DESCRIPTION}}">>, description)

\* ValidationUtils.extractVideoId(videoUrl): the id, "" when there is none
ExtractVideoId(videoUrl) ==
    IF Len(videoUrl) = 3 /\ videoUrl[2] \in {"youtu.be/", "youtube.com/watch?v="}
    THEN videoUrl[3] ELSE ""

\* variant of EmbedUrl that always embeds the video URL itself
EmbedUrlPlain(videoUrl) == videoUrl

\* videoId ? `https://www.youtube-nocookie.com/embed/${videoId}` : videoUrl
EmbedUrl(videoUrl) ==
    LET videoId == ExtractVideoId(videoUrl)
    IN IF videoId # "" THEN <<"https://www.youtube-nocookie.com/embed/", videoId>>
       ELSE videoUrl

\* new Date().toISOString().split('T')[0] and new Date().toISOString()
Clock == {"2026-01-01T10:00:00.000Z", "2026-01-02T09:30:00.000Z"}
IsoDate(now) == IF now = "2026-01-01T10:00:00.000Z" THEN "2026-01-01" ELSE "2026-01-02"

\* the heading, the format value and the extra front-matter keys of the
\* three built-in skeletons
Heading(skeleton) ==
    CASE skeleton = "brief" -> "OUTPUT FORMAT - BRIEF DESCRIPTION + RESOURCES:"
      [] skeleton = "executive-summary" -> "OUTPUT FORMAT - EXECUTIVE SUMMARY:"
      [] OTHER -> "OUTPUT FORMAT - COMPREHENSIVE TUTORIAL:"
FormatValue(skeleton) ==
    CASE skeleton = "brief" -> "format: brief"
      [] skeleton = "executive-summary" -> "format: executive-summary"
      [] OTHER -> "format: detailed-tutorial"
ExtraBefore(skeleton) ==
    CASE skeleton = "brief" -> <<>>
      [] skeleton = "executive-summary" -> <<"word_count: 250", "\n">>
      [] OTHER -> <<"word_count: \"[estimated word count]\"", "\n">>
ExtraAfter(skeleton) ==
    IF skeleton = "detailed-guide"
    THEN <<"difficulty: \"[beginner/intermediate/advanced]\"", "\n",
           "estimated_time: \"[time to complete]\"", "\n">>
    ELSE <<>>
Sections(skeleton) ==
    CASE skeleton = "brief" -> "## Brief Description ... ## Resources"
      [] skeleton = "executive-summary" -> "## Key Insights ... ## Concise Summary ... ## Resources"
      [] OTHER -> "## Comprehensive Tutorial ... ## Step-by-Step Implementation Guide ... ## Resources"

\* createBriefPrompt, createExecutiveSummaryPrompt, createDetailedGuidePrompt
SkeletonPrompt(skeleton, baseContent, videoUrl, now) ==
    LET videoId == ExtractVideoId(videoUrl)
    IN baseContent
       \o <<Heading(skeleton), "Use this EXACT template:", "---", "\n",
            "title: {Video Title}", "\n", "source: ">> \o videoUrl
       \o <<"\n", "created: \"", IsoDate(now), "\"", "\n",
            "modified: \"", IsoDate(now), "\"", "\n",
            "description: \"...\"", "\n", "type: youtube-note", "\n",
            FormatValue(skeleton), "\n", "tags: ...", "\n", "status: processed", "\n",
            "duration: \"[Extract video duration]\"", "\n",
            "channel: \"[Extract channel name]\"", "\n",
            "video_id: \"", IF videoId # "" THEN videoId ELSE "unknown", "\"", "\n",
            "processing_date: \"", now, "\"", "\n">>
       \o ExtraBefore(skeleton)
       \o <<"ai_provider", ":", " ", "\"", "__AI_PROVIDER__", "\"", "\n",
            "ai_model", ":", " ", "\"", "__AI_MODEL__", "\"", "\n">>
       \o ExtraAfter(skeleton)
       \o <<"---", "\n", "<iframe src=\"">> \o EmbedUrl(videoUrl)
       \o <<"\" title=\"{Video Title}\" ...></iframe>", "\n", "---", "\n",
            Sections(skeleton), "- **Original Video:** [Watch on YouTube](">> \o videoUrl
       \o <<")", "- **Channel:** ...">>

\* the skeleton createAnalysisPrompt dispatches a format to
SkeletonOf(format) ==
    IF format = "executive-summary" THEN "executive-summary"
    ELSE IF format = "brief" THEN "brief"
    ELSE "detailed-guide"

\* the arguments of createAnalysisPrompt
Formats == {"executive-summary", "detailed-guide", "brief", "custom"}
Titles ==
    { <<"My title">>, <<"About">>, <<"My title", " ", "{{URL}}">>, <<"$&">>, <<"Price ", "$$">> }
Descriptions ==
    { <<"About">>, <<"About", " ", "My title">>, <<"{{DESCRIPTION}}">>, <<"$'">>,
      <<"See ", "https://", "example.com/v">> }
Urls ==
    { <<"https://", "youtu.be/", "abc">>, <<"https://www.", "youtube.com/watch?v=", "abc">>,
      <<"https://", "example.com/v">> }
CustomPrompts == {<<>>, <<"List the tools shown in the video.">>}

\* AIPromptService.createAnalysisPrompt(videoData, videoUrl, format); the
\* caller's fourth argument is not a parameter of the method
CreateAnalysisPrompt(title, description, videoUrl, format, customPrompt, now) ==
    /\ pb.pc = "idle"
    /\ pb' = [pc |-> "done", title |-> title, description |-> description,
              videoUrl |-> videoUrl, format |-> format, customPrompt |-> customPrompt,
              now |-> now,
              prompt |-> SkeletonPrompt(SkeletonOf(format),
                                        BaseContent(title, videoUrl, description),
                                        videoUrl, now)]
    /\ UNCHANGED notPb

\* the clock readings that are not earlier than now
NotEarlier(now) == IF now = "2026-01-01T10:00:00.000Z" THEN Clock ELSE {now}

\* createAnalysisPrompt called a second time with the arguments of the
\* first call, when the clock reads later
CreateAnalysisPromptAgain(later) ==
    /\ pb.pc = "done"
    /\ later \in NotEarlier(pb.now)
    /\ pb' = [pc |-> "twice", title |-> pb.title, description |-> pb.description,
              videoUrl |-> pb.videoUrl, format |-> pb.format,
              customPrompt |-> pb.customPrompt, now |-> pb.now, prompt |-> pb.prompt,
              later |-> later,
              again |-> SkeletonPrompt(SkeletonOf(pb.format),
                                       BaseContent(pb.title, pb.videoUrl, pb.description),
                                       pb.videoUrl, later)]
    /\ UNCHANGED notPb

NextPrompt ==
    \/ \E title \in Titles, description \in Descriptions, videoUrl \in Urls,
          format \in Formats, customPrompt \in CustomPrompts, now \in Clock :
           CreateAnalysisPrompt(title, description, videoUrl, format, customPrompt, now)
    \/ \E later \in Clock : CreateAnalysisPromptAgain(later)

SpecPrompt == Init /\ [][NextPrompt]_vars

(* -------------------------- processAIResponse ------------------------- *)
\* \s, and the characters ["'] of the pattern of ensureFrontMatterValue
Whitespace == {" ", "\n"}
Quotes == {"\"", "'"}

\* piece.toLowerCase(), for the 'i' flag of the pattern
LowerPiece(piece) ==
    CASE piece = "AI_Model" -> "ai_model"
      [] piece = "AI_Provider" -> "ai_provider"
      [] OTHER -> piece

\* text.replace(/piece/g, replacement) with a replacement string, from the
\* i-th piece on
RECURSIVE ReplaceAllFrom(_, _, _, _)
ReplaceAllFrom(text, i, piece, replacement) ==
    IF i > Len(text) THEN <<>>
    ELSE (IF text[i] = piece
          THEN Expand(replacement, <<piece>>, SubSeq(text, 1, i - 1), SubSeq(text, i + 1, Len(text)))
          ELSE <<text[i]>>)
         \o ReplaceAllFrom(text, i + 1, piece, replacement)
ReplaceAll(text, piece, replacement) == ReplaceAllFrom(text, 1, piece, replacement)

\* where \s* started at i stops: the first piece from i on that is not
\* whitespace
RECURSIVE SkipSpace(_, _)
SkipSpace(text, i) ==
    IF i <= Len(text) /\ text[i] \in Whitespace THEN SkipSpace(text, i + 1) ELSE i

\* where [^"'\n]* started at i stops
RECURSIVE SkipValue(_, _)
SkipValue(text, i) ==
    IF i <= Len(text) /\ text[i] \notin (Quotes \cup {"\n"}) THEN SkipValue(text, i + 1) ELSE i

\* (["'])? at i
QuoteAt(text, i) == i <= Len(text) /\ text[i] \in Quotes

\* key\s*: matches at i
KeyAt(text, key, i) ==
    /\ LowerPiece(text[i]) = key
    /\ LET colon == SkipSpace(text, i + 1)
       IN colon <= Len(text) /\ text[colon] = ":"

\* where the pattern first matches, 0 when pattern.test(content) is false
FirstKey(text, key) ==
    IF \E i \in 1..Len(text) : KeyAt(text, key, i)
    THEN CHOOSE i \in 1..Len(text) :
            KeyAt(text, key, i) /\ \A j \in 1..(i - 1) : ~KeyAt(text, key, j)
    ELSE 0

\* content.replace(pattern, (_, prefix, openingQuote, _existing, closingQuote) => ...)
OverwriteValue(content, key, value) ==
    LET i == FirstKey(content, key)
        colon == SkipSpace(content, i + 1)
        open == SkipSpace(content, colon + 1)
        openingQuote == QuoteAt(content, open)
        close == SkipValue(content, IF openingQuote THEN open + 1 ELSE open)
        closingQuote == QuoteAt(content, close)
        quote == IF openingQuote \/ closingQuote THEN <<"\"">> ELSE <<>>
    IN SubSeq(content, 1, open - 1) \o quote \o value \o quote
       \o SubSeq(content, IF closingQuote THEN close + 1 ELSE close, Len(content))

\* the last piece of the match of /^---\s*\n/, 0 when it does not match
DelimiterEnd(content) ==
    LET stop == SkipSpace(content, 2)
        newlines == {n \in 2..(stop - 1) : content[n] = "\n"}
    IN IF newlines = {} THEN 0
       ELSE CHOOSE n \in newlines : \A k \in newlines : k <= n

\* content.replace(/^---\s*\n/, `---\n${key}: "${value}"\n`)
InsertValue(content, key, value) ==
    LET n == DelimiterEnd(content)
        after == SubSeq(content, n + 1, Len(content))
    IN IF n = 0 THEN content
       ELSE Expand(<<"---", "\n", key, ":", " ", "\"">> \o value \o <<"\"", "\n">>,
                   SubSeq(content, 1, n), <<>>, after) \o after

\* AIPromptService.ensureFrontMatterValue(content, key, value)
EnsureFrontMatterValue(content, key, value) ==
    IF FirstKey(content, key) # 0 THEN OverwriteValue(content, key, value)
    ELSE IF content # <<>> /\ content[1] = "---" THEN InsertValue(content, key, value)
    ELSE content

\* AIPromptService.processAIResponse(content, provider, model)
ProcessAIResponse(content, provider, mdl) ==
    IF content = <<>> THEN content
    ELSE LET providerValue == IF provider = <<>> THEN <<"unknown">> ELSE provider
             modelValue == IF mdl = <<>> THEN <<"unknown">> ELSE mdl
             updatedContent == ReplaceAll(ReplaceAll(content, "__AI_PROVIDER__", providerValue),
                                          "__AI_MODEL__", modelValue)
         IN EnsureFrontMatterValue(
                EnsureFrontMatterValue(updatedContent, "ai_provider", providerValue),
                "ai_model", modelValue)

\* The content handed to processAIResponse is what a model answered: up to
\* MaxLines lines, each one of these.
MaxLines == 4
Lines ==
    { <<"---", "\n">>,
      <<"ai_provider", ":", " ", "\"", "__AI_PROVIDER__", "\"", "\n">>,
      <<"ai_model", ":", " ", "\"", "__AI_MODEL__", "\"", "\n">>,
      <<"ai_model", ":", "\n">>,
      <<"ai_provider", ":", " ", "x", "\n">>,
      <<"AI_Model", ":", " ", "'", "x", "\n">>,
      <<"title", ":", " ", "x", "\n">>,
      <<"x">> }

RECURSIVE Join(_)
Join(lines) == IF lines = <<>> THEN <<>> ELSE Head(lines) \o Join(Tail(lines))

Answers == {Join(lines) : lines \in UNION {[1..n -> Lines] : n \in 0..MaxLines}}
ProviderValues == {<<>>, <<"Groq">>}
ModelValues == {<<>>, <<"llama-3.3-70b-versatile">>}

\* processAIResponse(content, provider, model), and processAIResponse again
\* on its result with the same provider and model
PostProcess(content, provider, mdl) ==
    /\ post.pc = "idle"
    /\ LET once == ProcessAIResponse(content, provider, mdl)
       IN post' = [pc |-> "done", content |-> content, provider |-> provider,
                   model |-> mdl, once |-> once,
                   twice |-> ProcessAIResponse(once, provider, mdl)]
    /\ UNCHANGED notPost

NextPost ==
    \E content \in (IF post.pc = "idle" THEN Answers ELSE {}),
       provider \in ProviderValues, mdl \in ModelValues :
        PostProcess(content, provider, mdl)

SpecPost == Init /\ [][NextPost]_vars

(* ---------------------------- validatePrompt -------------------------- *)
\* A string given by its make-up: lead blanks, then core characters of
\* which the first and the last are not blank (none when core = 0), then
\* trail blanks.
Str(lead, core, trail) == [t |-> "string", lead |-> lead, core |-> core, trail |-> trail]

\* prompt.length; prompt.trim()
Length(s) == s.lead + s.core + s.trail
TrimStr(s) == IF s.core = 0 THEN Str(0, 0, 0) ELSE Str(0, s.core, 0)

\* variant of ValidatePrompt that measures the prompt as given:
\* prompt.length > 10 in place of prompt.trim().length > 10
ValidatePromptUntrimmed(prompt) ==
    /\ prompt.t = "string" /\ Length(prompt) > 0
    /\ Length(prompt) > 10
    /\ Length(prompt) < 50000

\* AIPromptService.validatePrompt(prompt): Boolean(prompt) &&
\* typeof prompt === 'string' && prompt.trim().length > 10 && prompt.length < 50000
ValidatePrompt(prompt) ==
    /\ prompt.t = "string" /\ Length(prompt) > 0
    /\ Length(TrimStr(prompt)) > 10
    /\ Length(prompt) < 50000

\* the prompts validatePrompt is called on
Leads == {0, 1, 11}
Cores == {0, 5, 9, 10, 11, 12, 50, 49988, 49998, 49999, 50000, 60000}
Trails == {0, 1, 11}
PromptValues ==
    {Str(lead, core, trail) : lead \in Leads, core \in Cores, trail \in Trails}
    \cup {JUndefined, JNull, JNumber(1234567890), JArray(<<>>)}

\* a call validatePrompt(prompt)
CallValidatePrompt(prompt) ==
    /\ vp.pc = "idle"
    /\ vp' = [pc |-> "done", prompt |-> prompt, result |-> ValidatePrompt(prompt)]
    /\ UNCHANGED notVp

NextValidatePrompt == \E prompt \in PromptValues : CallValidatePrompt(prompt)

SpecValidatePrompt == Init /\ [][NextValidatePrompt]_vars

(* ------------------- the plugin's temporary-note handlers -------------- *)
\* A note's content is a sequence of pieces: the hidden marker of the
\* extension, a watch URL with its scheme, one without, a word, a newline.
NOTE_MARKER == "<!-- ytc-extension:youtube-clipper -->"
Url == "https://youtu.be/abcdef"
BareUrl == "youtu.be/abcdef"

\* content.trim(), for text whose whitespace is blanks and newlines
RECURSIVE TrimNoteStart(_)
TrimNoteStart(s) == IF s # <<>> /\ Head(s) \in Whitespace THEN TrimNoteStart(Tail(s)) ELSE s
RECURSIVE TrimNoteEnd(_)
TrimNoteEnd(s) == IF s # <<>> /\ s[Len(s)] \in Whitespace
                  THEN TrimNoteEnd(SubSeq(s, 1, Len(s) - 1)) ELSE s
TrimNote(s) == TrimNoteEnd(TrimNoteStart(s))

\* content.replace(NOTE_MARKER, ''): the first marker removed
RemoveMarker(content) ==
    LET i == CHOOSE n \in 1..Len(content) :
                content[n] = NOTE_MARKER /\ \A k \in 1..(n - 1) : content[k] # NOTE_MARKER
    IN SubSeq(content, 1, i - 1) \o SubSeq(content, i + 1, Len(content))

\* maybe.match(ytRegex): the first URL with a scheme, <<>> when none
FirstUrl(maybe) ==
    IF \E n \in 1..Len(maybe) : maybe[n] = Url THEN <<Url>> ELSE <<>>

\* maybe.split('\n').map(s => s.trim()).find(Boolean) || ''
RECURSIVE FirstLine(_)
FirstLine(maybe) ==
    LET rest == TrimNoteStart(maybe)
        stop == IF \E n \in 1..Len(rest) : rest[n] = "\n"
                THEN CHOOSE n \in 1..Len(rest) :
                        rest[n] = "\n" /\ \A k \in 1..(n - 1) : rest[k] # "\n"
                ELSE Len(rest) + 1
    IN TrimNote(SubSeq(rest, 1, stop - 1))

\* ValidationUtils.isValidYouTubeUrl(single)
IsValidYouTubeUrl(single) == single \in {<<Url>>, <<BareUrl>>}

\* file.name.startsWith('YouTube Clip -')
HasClipPrefix(path) == path = "YouTube Clip - 1.md"

\* The URL the handlers extract from a note, <<>> when there is none: the
\* content without the marker when it has the marker, else the first URL
\* in it, else its first line when the file name has the prefix and the
\* line is a valid URL.
ExtractUrl(content, path) ==
    IF \E n \in 1..Len(content) : content[n] = NOTE_MARKER
    THEN TrimNote(RemoveMarker(content))
    ELSE LET maybe == TrimNote(content)
         IN IF FirstUrl(maybe) # <<>> THEN FirstUrl(maybe)
            ELSE IF HasClipPrefix(path) /\ IsValidYouTubeUrl(FirstLine(maybe))
                 THEN FirstLine(maybe)
                 ELSE <<>>

\* what the extension and the user write into a note
NoteContents == { <<NOTE_MARKER, "\n", Url>>, <<Url, "\n">>, <<BareUrl>>, <<"x">> }

\* the runs of the two handlers, in the order of their events
MaxHandlers == 3

\* one run of a handler: suspended at `await this.app.vault.read(file)`
Handler(kind, path) == [kind |-> kind, path |-> path, pc |-> "read", url |-> <<>>]

\* A note appears in the vault and the vault emits 'create': the handler
\* runs up to its read of the file.
VaultCreate(path, content) ==
    /\ Len(plug.handlers) < MaxHandlers
    /\ plug.files[path] = Absent
    /\ plug' = [plug EXCEPT !.files[path] = content,
                            !.handlers = Append(@, Handler("create", path))]
    /\ UNCHANGED notPlug

\* The workspace emits 'active-leaf-change' with path the active file: the
\* handler returns at once for a path in handledTempFiles, else runs up to
\* its read of the file.
ActiveLeafChange(path) ==
    /\ Len(plug.handlers) < MaxHandlers
    /\ plug.files[path] # Absent
    /\ plug' = [plug EXCEPT !.handlers = Append(@,
                   IF path \in plug.handledTempFiles
                   THEN [Handler("active-leaf-change", path) EXCEPT !.pc = "returned"]
                   ELSE Handler("active-leaf-change", path))]
    /\ UNCHANGED notPlug

\* the read of handler h settles with the note's content: without a URL
\* the handler returns; with one it sets its timer, the 'active-leaf-change'
\* handler after adding the path to handledTempFiles
ReadSettles(h) ==
    /\ h \in 1..Len(plug.handlers)
    /\ plug.handlers[h].pc = "read"
    /\ LET path == plug.handlers[h].path
           url == ExtractUrl(plug.files[path], path)
       IN plug' = IF url = <<>>
                  THEN [plug EXCEPT !.handlers[h].pc = "returned"]
                  ELSE [plug EXCEPT !.handlers[h].pc = "timer",
                                    !.handlers[h].url = url,
                                    !.handledTempFiles =
                                        IF plug.handlers[h].kind = "active-leaf-change"
                                        THEN @ \cup {path} ELSE @]
    /\ UNCHANGED notPlug

\* the read of handler h fails: the error is swallowed
ReadFails(h) ==
    /\ h \in 1..Len(plug.handlers)
    /\ plug.handlers[h].pc = "read"
    /\ plug' = [plug EXCEPT !.handlers[h].pc = "returned"]
    /\ UNCHANGED notPlug

\* ConflictPrevention.safeOperation(operation, name): runs the operation
SafeOperationRuns == TRUE

\* variant of SafeShowUrlModal without the tests of isUnloading
SafeShowUrlModalAlways(p, source) ==
    [p EXCEPT !.operationCount = @ + 1,
              !.opened[source] = IF SafeOperationRuns THEN @ + 1 ELSE @]

\* safeShowUrlModal(url): safeOperation skips it while unloading, else
\* counts the operation and openYouTubeUrlModal opens a YouTubeUrlModal
SafeShowUrlModal(p, source) ==
    IF p.isUnloading THEN p
    ELSE [p EXCEPT !.operationCount = @ + 1,
                   !.opened[source] = IF SafeOperationRuns THEN @ + 1 ELSE @]

\* the timer of handler h fires: safeShowUrlModal(url)
TimerFires(h) ==
    /\ h \in 1..Len(plug.handlers)
    /\ plug.handlers[h].pc = "timer"
    /\ plug' = [SafeShowUrlModal(plug, plug.handlers[h].path)
                   EXCEPT !.handlers[h].pc = "returned"]
    /\ UNCHANGED notPlug

\* The protocol handler receives a URI: with a valid URL it defers
\* safeShowUrlModal(url) by a timer, else it does nothing.
ProtocolHandler(url) ==
    /\ Len(plug.handlers) < MaxHandlers
    /\ plug' = [plug EXCEPT !.handlers = Append(@,
                   IF url # <<>> /\ IsValidYouTubeUrl(url)
                   THEN [kind |-> "protocol", path |-> ProtocolUri, pc |-> "timer", url |-> url]
                   ELSE [kind |-> "protocol", path |-> ProtocolUri, pc |-> "returned", url |-> <<>>])]
    /\ UNCHANGED notPlug

(* ------------------------- processYouTubeVideo ------------------------- *)
\* the requests a modal can make at a time
MaxVideos == 1

\* One call of processYouTubeVideo: where it is, the steps it has taken in
\* order, the step it failed at, the content the AI call returned.
Video(pc, did, failedAt) == [pc |-> pc, did |-> did, failedAt |-> failedAt, content |-> <<>>]

\* the call throws from step
VideoThrows(v, step) == [v EXCEPT !.pc = "threw", !.failedAt = step]

\* processYouTubeVideo(url, ...), up to its first await: it throws while
\* unloading, on invalid settings and on a URL without video id; else
\* getVideoData(videoId) is awaited
StartVideo(p, url, settingsValid) ==
    IF p.isUnloading THEN Video("threw", <<>>, "isUnloading")
    ELSE IF ~settingsValid THEN Video("threw", <<"validateSettings">>, "validateSettings")
    ELSE IF ExtractVideoId(url) = ""
    THEN Video("threw", <<"validateSettings", "extractVideoId">>, "extractVideoId")
    ELSE Video("getVideoData", <<"validateSettings", "extractVideoId", "getVideoData">>, "")

\* after `await youtubeService.getVideoData(videoId)`: the prompt is built
\* and the AI call awaited
AfterVideoData(v, fetched) ==
    IF ~fetched THEN VideoThrows(v, "getVideoData")
    ELSE [v EXCEPT !.pc = "process", !.did = @ \o <<"createAnalysisPrompt", "process">>]

\* variant of AfterAI that writes the note whatever the AI call did
AfterAISavesAnyway(v, res) ==
    [v EXCEPT !.pc = "saveToFile", !.content = res.content,
              !.failedAt = IF res.t = "ok" THEN "" ELSE "process",
              !.did = @ \o <<"processAIResponse", "saveToFile">>]

\* after `await aiService.process(prompt)` (or processWith): the response
\* is post-processed and saveToFile awaited
AfterAI(v, res) ==
    IF res.t # "ok" THEN VideoThrows(v, "process")
    ELSE [v EXCEPT !.pc = "saveToFile", !.content = res.content,
                   !.did = @ \o <<"processAIResponse", "saveToFile">>]

\* how the AI call settles: AIService returns content that is not blank, or
\* throws
AIOutcomes == {Resolved(c) : c \in {c \in Contents : IsNonEmpty(c)}} \cup {Rejected(m) : m \in ErrMsgs}

\* onProcess of an opened modal calls processYouTubeVideo
ProcessYouTubeVideo(url, settingsValid) ==
    /\ Len(plug.videos) < MaxVideos
    /\ \E source \in ModalSources : plug.opened[source] > 0
    /\ plug' = [plug EXCEPT !.videos = Append(@, StartVideo(plug, url, settingsValid))]
    /\ UNCHANGED notPlug

\* getVideoData settles
VideoDataSettles(v, fetched) ==
    /\ v \in 1..Len(plug.videos)
    /\ plug.videos[v].pc = "getVideoData"
    /\ plug' = [plug EXCEPT !.videos[v] = AfterVideoData(@, fetched)]
    /\ UNCHANGED notPlug

\* the AI call settles
AISettles(v, res) ==
    /\ v \in 1..Len(plug.videos)
    /\ plug.videos[v].pc = "process"
    /\ plug' = [plug EXCEPT !.videos[v] = AfterAI(@, res)]
    /\ UNCHANGED notPlug

\* saveToFile settles: the path is returned, or the call throws
SaveSettles(v, saved) ==
    /\ v \in 1..Len(plug.videos)
    /\ plug.videos[v].pc = "saveToFile"
    /\ plug' = [plug EXCEPT !.videos[v] =
                   IF saved THEN [@ EXCEPT !.pc = "returned"] ELSE VideoThrows(@, "saveToFile")]
    /\ UNCHANGED notPlug

\* onunload()
Unload ==
    /\ ~plug.isUnloading
    /\ plug' = [plug EXCEPT !.isUnloading = TRUE]
    /\ UNCHANGED notPlug

NextPlugin ==
    \/ \E path \in NotePaths, content \in NoteContents : VaultCreate(path, content)
    \/ \E path \in NotePaths : ActiveLeafChange(path)
    \/ \E h \in 1..MaxHandlers : ReadSettles(h)
    \/ \E h \in 1..MaxHandlers : ReadFails(h)
    \/ \E h \in 1..MaxHandlers : TimerFires(h)
    \/ \E url \in {<<>>, <<"x">>, <<Url>>} : ProtocolHandler(url)
    \/ \E url \in Urls, settingsValid \in BOOLEAN : ProcessYouTubeVideo(url, settingsValid)
    \/ \E v \in 1..MaxVideos, fetched \in BOOLEAN : VideoDataSettles(v, fetched)
    \/ \E v \in 1..MaxVideos, res \in AIOutcomes : AISettles(v, res)
    \/ \E v \in 1..MaxVideos, saved \in BOOLEAN : SaveSettles(v, saved)
    \/ Unload

SpecPlugin == Init /\ [][NextPlugin]_vars

(* --------------------------- YouTubeUrlModal --------------------------- *)
\* what the URL field can hold
ModalUrls == {<<>>, <<Blank>>, <<Url>>, <<Url, Blank>>, <<"x">>}

\* the handleProcess runs of one modal
MaxRuns == 2

\* setStepState(index, state)
SetStepState(m, index, state) ==
    [m EXCEPT !.steps[index] = state,
              !.currentStepIndex =
                  IF state = "active" THEN index
                  ELSE IF state = "complete" /\ m.currentStepIndex = index
                       THEN (IF index + 1 < 3 THEN index + 1 ELSE 3)
                       ELSE @]

\* flagActiveStepAsError()
FlagActiveStepAsError(m) == SetStepState(m, m.currentStepIndex, "error")

\* showProcessingState(): the flag is set, the steps are reset, the URL
\* input and the process button are disabled, the Open Note button hidden
ShowProcessingState(m) ==
    [m EXCEPT !.isProcessing = TRUE,
              !.steps = [i \in 0..3 |-> "pending"], !.currentStepIndex = 0,
              !.inputDisabled = TRUE,
              !.processDisabled = TRUE, !.processText = "Processing...",
              !.openVisible = FALSE]

\* showCompletionState()
ShowCompletionState(m) ==
    [m EXCEPT !.isProcessing = FALSE, !.inputDisabled = FALSE,
              !.processDisabled = FALSE, !.processText = "Process Another",
              !.openVisible = TRUE, !.header = "Video Processed Successfully!"]

\* variant of ShowErrorState that leaves the processing flag set
ShowErrorStateKeepsFlag(m) ==
    [m EXCEPT !.inputDisabled = FALSE,
              !.processDisabled = FALSE, !.processText = "Process",
              !.openVisible = FALSE, !.header = "Processing Failed"]

\* showErrorState(error)
ShowErrorState(m) ==
    [m EXCEPT !.isProcessing = FALSE, !.inputDisabled = FALSE,
              !.processDisabled = FALSE, !.processText = "Process",
              !.openVisible = FALSE, !.header = "Processing Failed"]

\* updateProcessButtonState(): nothing while processing; the memoized
\* result for the same trimmed URL, else a new debounce timer that holds
\* the trimmed URL
UpdateProcessButtonState(m) ==
    IF m.isProcessing THEN m
    ELSE LET trimmedUrl == Trim(m.url)
             named == [m EXCEPT !.processText = "Process"]
         IN IF m.lastValidUrl.defined /\ trimmedUrl = m.lastValidUrl.url
            THEN [named EXCEPT !.processDisabled = ~m.lastValidResult]
            ELSE [named EXCEPT !.validationTimer = [set |-> TRUE, url |-> trimmedUrl]]

\* setFetchingState(isFetching)
SetFetchingState(m, isFetching) ==
    [m EXCEPT !.fetchInProgress = isFetching,
              !.processDisabled = isFetching \/ ~m.lastValidResult]

\* maybeFetchPreview(url), up to its await
MaybeFetchPreview(m, url) ==
    IF m.fetchInProgress \/ url = <<>> THEN m
    ELSE IF m.lastValidUrl.defined /\ m.lastValidUrl.url = url /\ m.thumbnail THEN m
    ELSE SetFetchingState(m, TRUE)

\* the callback of the debounce timer of updateProcessButtonState
ValidationCallback(m) ==
    LET trimmedUrl == m.validationTimer.url
        isValid == IsValidYouTubeUrl(trimmedUrl)
        set == [m EXCEPT !.validationTimer.set = FALSE,
                         !.lastValidUrl = [defined |-> TRUE, url |-> trimmedUrl],
                         !.lastValidResult = isValid,
                         !.processDisabled = ~isValid]
    IN IF isValid THEN MaybeFetchPreview(set, trimmedUrl)
       ELSE [set EXCEPT !.thumbnail = FALSE]

\* a run of handleProcess
Run(pc, trimmedUrl) == [pc |-> pc, url |-> trimmedUrl, filePath |-> ""]

\* variant of HandleProcess that trusts the memoized validation result
HandleProcessMemo(m) ==
    LET trimmedUrl == Trim(m.url)
    IN IF trimmedUrl = <<>>
       THEN [m EXCEPT !.runs = Append(@, Run("noUrl", trimmedUrl))]
       ELSE IF ~m.lastValidResult
       THEN [m EXCEPT !.runs = Append(@, Run("invalidUrl", trimmedUrl))]
       ELSE [SetStepState(ShowProcessingState(m), 0, "active")
                EXCEPT !.runs = Append(@, Run("validating", trimmedUrl))]

\* handleProcess(), up to its first await: an empty or invalid URL ends
\* it with a notice; else the processing state is shown and step 0 is
\* active while the first delay runs
HandleProcess(m) ==
    LET trimmedUrl == Trim(m.url)
    IN IF trimmedUrl = <<>>
       THEN [m EXCEPT !.runs = Append(@, Run("noUrl", trimmedUrl))]
       ELSE IF ~IsValidYouTubeUrl(trimmedUrl)
       THEN [m EXCEPT !.runs = Append(@, Run("invalidUrl", trimmedUrl))]
       ELSE [SetStepState(ShowProcessingState(m), 0, "active")
                EXCEPT !.runs = Append(@, Run("validating", trimmedUrl))]

\* new YouTubeUrlModal(app, options).open(): the constructor takes the
\* initial URL, onOpen builds the content and createActionButtons ends with
\* updateProcessButtonState
Open(initialUrl) ==
    /\ modal.pc = "closed"
    /\ modal' = UpdateProcessButtonState([modal EXCEPT !.pc = "open", !.url = initialUrl])
    /\ UNCHANGED notModal

\* the 'input' listener of the URL field
Input(value) ==
    /\ modal.pc = "open" /\ ~modal.inputDisabled
    /\ value # modal.url
    /\ modal' = UpdateProcessButtonState([modal EXCEPT !.url = value])
    /\ UNCHANGED notModal

\* the debounce timer fires
ValidationTimerFires ==
    /\ modal.pc = "open" /\ modal.validationTimer.set
    /\ modal' = ValidationCallback(modal)
    /\ UNCHANGED notModal

\* the preview fetch of maybeFetchPreview settles: the preview is shown
\* with or without thumbnail, or cleared, and setFetchingState(false) runs
PreviewSettles(meta) ==
    /\ modal.pc = "open" /\ modal.fetchInProgress
    /\ modal' = SetFetchingState([modal EXCEPT !.thumbnail = (meta = "thumbnail")], FALSE)
    /\ UNCHANGED notModal

\* a click on the process button, which a disabled button does not take
ClickProcess ==
    /\ modal.pc = "open" /\ ~modal.processDisabled
    /\ Len(modal.runs) < MaxRuns
    /\ modal' = HandleProcess(modal)
    /\ UNCHANGED notModal

\* the Enter key in the modal (setupKeyHandlers)
PressEnter ==
    /\ modal.pc = "open"
    /\ Len(modal.runs) < MaxRuns
    /\ modal' = HandleProcess(modal)
    /\ UNCHANGED notModal

\* one of the delays of run r of handleProcess is over: the next step is
\* active; after the second delay onProcess is called with the trimmed
\* URL; after the last delay the file path is stored and the completion
\* state shown
DelayOver(r) ==
    /\ r \in 1..Len(modal.runs)
    /\ modal.runs[r].pc \in {"validating", "extracting", "generating"}
    /\ modal' =
         CASE modal.runs[r].pc = "validating" ->
                [SetStepState(SetStepState(modal, 0, "complete"), 1, "active")
                    EXCEPT !.runs[r].pc = "extracting"]
           [] modal.runs[r].pc = "extracting" ->
                [SetStepState(SetStepState(modal, 1, "complete"), 2, "active")
                    EXCEPT !.runs[r].pc = "onProcess",
                           !.onProcessCalls = Append(@, modal.runs[r].url)]
           [] OTHER ->
                [ShowCompletionState(
                    [SetStepState(modal, 3, "complete")
                        EXCEPT !.processedFilePath = modal.runs[r].filePath])
                    EXCEPT !.runs[r].pc = "completed"]
    /\ UNCHANGED notModal

\* the promise of onProcess of run r settles: with the file path, and step
\* 3 is active while the last delay runs; or with an error, and the catch
\* flags the active step and shows the error state
OnProcessSettles(r, filePath) ==
    /\ r \in 1..Len(modal.runs)
    /\ modal.runs[r].pc = "onProcess"
    /\ modal' =
         IF filePath # ""
         THEN [SetStepState(SetStepState(modal, 2, "complete"), 3, "active")
                  EXCEPT !.runs[r].pc = "generating", !.runs[r].filePath = filePath]
         ELSE [ShowErrorState(FlagActiveStepAsError(modal)) EXCEPT !.runs[r].pc = "failed"]
    /\ UNCHANGED notModal

NextModal ==
    \/ \E initialUrl \in {<<>>, <<Url>>} : Open(initialUrl)
    \/ \E value \in ModalUrls : Input(value)
    \/ ValidationTimerFires
    \/ \E meta \in {"thumbnail", "none"} : PreviewSettles(meta)
    \/ ClickProcess
    \/ PressEnter
    \/ \E r \in 1..MaxRuns : DelayOver(r)
    \/ \E r \in 1..MaxRuns, filePath \in {"", "note.md"} : OnProcessSettles(r, filePath)

SpecModal == Init /\ [][NextModal]_vars

\* The delays of handleProcess are timers, which fire, and the continuation
\* of a settled promise runs; that the promise of onProcess settles is the
\* assumption under which a run is expected to end.
FairModal ==
    /\ SpecModal
    /\ \A r \in 1..MaxRuns : WF_vars(DelayOver(r))
    /\ \A r \in 1..MaxRuns : WF_vars(\E filePath \in {"", "note.md"} : OnProcessSettles(r, filePath))

(* ------------------------- YouTubeVideoService ------------------------- *)
\* the calls of getVideoData on one service, one after the other
MaxFetches == 2

\* MESSAGES.WARNINGS.EXTRACTION_FAILED, MESSAGES.WARNINGS.AUTO_EXTRACTION
EXTRACTION_FAILED == "EXTRACTION_FAILED"
AUTO_EXTRACTION == "AUTO_EXTRACTION"

\* a cached string, a cached { title } or a cached VideoData
CachedText(text) == [t |-> "string", s |-> text]
CachedTitle(title) == [t |-> "metadata", title |-> title]
VideoData(title, description) == [t |-> "video-data", title |-> title, description |-> description]

\* `if (cached)`: a hit is a value that is not falsy
Hit(v) == v # NotCached /\ v # CachedText("")

\* this.cache?.set(key, value, ttl), and the record of it in the call
CacheSet(s, key, value) ==
    [s EXCEPT !.cache[key] = value, !.call.sets = Append(@, <<key, value>>)]

\* getVideoMetadata(videoId), up to its fetch: the cached title, or pending
StartMetadata(s) ==
    IF Hit(s.cache["metadata"])
    THEN [s EXCEPT !.call.metadata = "resolved", !.call.title = s.cache["metadata"].title]
    ELSE [s EXCEPT !.call.metadata = "pending"]

\* getVideoDescription(videoId), up to its fetch: the cached text, or pending
StartDescription(s) ==
    IF Hit(s.cache["description"])
    THEN [s EXCEPT !.call.description = "resolved", !.call.text = s.cache["description"].s]
    ELSE [s EXCEPT !.call.description = "pending"]

\* How the oEmbed request ends: a status with the title of the JSON body
\* ("" when it has none), a body that is not JSON, a network error, the
\* 10 s timeout.
MetadataOutcomes ==
    { [kind |-> "json", status |-> 200, title |-> "My title"],
      [kind |-> "json", status |-> 200, title |-> ""],
      [kind |-> "json", status |-> 404, title |-> ""],
      [kind |-> "json", status |-> 500, title |-> ""],
      [kind |-> "notJson", status |-> 200, title |-> ""],
      [kind |-> "network", status |-> 0, title |-> ""],
      [kind |-> "abort", status |-> 0, title |-> ""] }

\* getVideoMetadata after its fetch: a non-success status, an unreadable
\* body, a network error and the timeout throw; else { title } is cached
\* and returned
AfterMetadata(s, o) ==
    IF o.kind # "json" \/ ~Ok(o.status)
    THEN [s EXCEPT !.call.metadata = "rejected"]
    ELSE LET title == IF o.title # "" THEN o.title ELSE "Unknown Title"
         IN [CacheSet(s, "metadata", CachedTitle(title))
                EXCEPT !.call.metadata = "resolved", !.call.title = title]

\* How the request for the video page ends: a page with a description, a
\* page in which no pattern matches, a non-success status, a network error.
PageOutcomes ==
    { [kind |-> "html", ok |-> TRUE, description |-> "About"],
      [kind |-> "html", ok |-> TRUE, description |-> ""],
      [kind |-> "html", ok |-> FALSE, description |-> ""],
      [kind |-> "network", ok |-> FALSE, description |-> ""] }

\* extractDescriptionFromHTML(html)
ExtractDescriptionFromHTML(o) ==
    IF o.description # "" THEN o.description ELSE AUTO_EXTRACTION

\* variant of AfterPage that lets the failure of the page through
AfterPageThrows(s, o) ==
    IF o.kind = "html" /\ o.ok
    THEN LET description == ExtractDescriptionFromHTML(o)
         IN [CacheSet(s, "description", CachedText(description))
                EXCEPT !.call.description = "resolved", !.call.text = description]
    ELSE [s EXCEPT !.call.description = "rejected", !.call.pageFailed = TRUE]

\* getVideoDescription after fetchVideoPageHTML: the extracted description
\* is cached and returned; when the fetch threw, the fallback text is
\* cached and returned
AfterPage(s, o) ==
    IF o.kind = "html" /\ o.ok
    THEN LET description == ExtractDescriptionFromHTML(o)
         IN [CacheSet(s, "description", CachedText(description))
                EXCEPT !.call.description = "resolved", !.call.text = description]
    ELSE [CacheSet(s, "description", CachedText(EXTRACTION_FAILED))
             EXCEPT !.call.description = "resolved", !.call.text = EXTRACTION_FAILED,
                    !.call.pageFailed = TRUE]

\* getVideoData(videoId), up to its await: it throws without an id, returns
\* cached video data, else starts getVideoMetadata and getVideoDescription
GetVideoData(videoId) ==
    /\ vd.made < MaxFetches
    /\ vd.call.pc \in {"idle", "returned", "threw"}
    /\ vd.call.description # "pending"
    /\ LET s == [vd EXCEPT !.made = @ + 1, !.call = [NoFetch EXCEPT !.videoId = videoId]]
       IN vd' = IF videoId = ""
                THEN [s EXCEPT !.call.pc = "threw", !.call.error = "Video ID is required"]
                ELSE IF Hit(s.cache["video-data"])
                THEN [s EXCEPT !.call.pc = "returned", !.call.result = s.cache["video-data"]]
                ELSE [StartDescription(StartMetadata(s)) EXCEPT !.call.pc = "await"]
    /\ UNCHANGED notVd

\* the oEmbed request ends
MetadataSettles(o) ==
    /\ vd.call.metadata = "pending"
    /\ vd' = AfterMetadata(vd, o)
    /\ UNCHANGED notVd

\* the request for the video page ends
PageSettles(o) ==
    /\ vd.call.description = "pending"
    /\ vd' = AfterPage(vd, o)
    /\ UNCHANGED notVd

\* Promise.all settles: rejected as soon as one promise is, and
\* getVideoData throws the user-friendly error; resolved when both are,
\* and the video data is cached and returned
PromiseAllSettles ==
    /\ vd.call.pc = "await"
    /\ \/ "rejected" \in {vd.call.metadata, vd.call.description}
       \/ vd.call.metadata = "resolved" /\ vd.call.description = "resolved"
    /\ vd' = IF "rejected" \in {vd.call.metadata, vd.call.description}
             THEN [vd EXCEPT !.call.pc = "threw", !.call.error = "fetch video data"]
             ELSE LET result == VideoData(
                         IF vd.call.title # "" THEN vd.call.title ELSE "Unknown Title",
                         IF vd.call.text # "" THEN vd.call.text ELSE "No description available")
                  IN [CacheSet(vd, "video-data", result)
                         EXCEPT !.call.pc = "returned", !.call.result = result]
    /\ UNCHANGED notVd

\* an entry of the cache expires
Expires(key) ==
    /\ Hit(vd.cache[key])
    /\ vd.call.pc # "await"
    /\ vd' = [vd EXCEPT !.cache[key] = NotCached]
    /\ UNCHANGED notVd

NextVideoData ==
    \/ \E videoId \in {"", "abc"} : GetVideoData(videoId)
    \/ \E o \in MetadataOutcomes : MetadataSettles(o)
    \/ \E o \in PageOutcomes : PageSettles(o)
    \/ PromiseAllSettles
    \/ \E key \in CacheKeys : Expires(key)

SpecVideoData == Init /\ [][NextVideoData]_vars

(* ======================= properties of AIService ====================== *)
\* an invocation that ended without usable content
Failed(e) == e.out # "pending" /\ e.out # "content"

\* the list has not been touched since construction
Untouched == configOps = 0

\* some provider of the list is named n
Registered(ps, n) == \E i \in 1..Len(ps) : NameOf(ps[i]) = n

\* C1: in a process call, the first provider (in list order) whose
\* process() yields content that is not blank after trimming ends the
\* call: the call has returned that provider's content under that
\* provider's name, every provider invoked before it failed or was empty,
\* and it is the last provider the call invoked.
C1_FirstNonEmptyWins ==
    \A c \in CallIds : calls[c].op = "process" =>
        LET log == calls[c].log
        IN /\ \A i \in 1..Len(log) :
                 log[i].out = "content" =>
                     /\ i = Len(log)
                     /\ calls[c].pc = "returned"
                     /\ calls[c].result.content = log[i].content
                     /\ calls[c].result.provider = NameOf(log[i].obj)
                     /\ \A j \in 1..(i - 1) : Failed(log[j])
           /\ calls[c].pc = "returned" => Len(log) >= 1 /\ log[Len(log)].out = "content"
           /\ Untouched => \A i \in 1..Len(log) : i <= Len(providers) /\ log[i].obj = providers[i]

\* a process call fell back to its second provider and returned its
\* content, with a third provider in the list that was not invoked
C1_Witness ==
    \E c \in CallIds :
        /\ calls[c].op = "process" /\ calls[c].pc = "returned"
        /\ Untouched
        /\ Len(calls[c].log) = 2 /\ Len(providers) = 3
        /\ calls[c].result.provider = NameOf(providers[2])

\* C2: neither process nor processWith returns an AIResponse whose content
\* is empty or blank; a provider result that is blank after trimming counts
\* as that provider's failure.
C2_ContentNeverBlank ==
    \A c \in CallIds :
        /\ calls[c].pc = "returned" => Trim(calls[c].result.content) # <<>>
        /\ \A i \in 1..Len(calls[c].log) :
              calls[c].log[i].out = EmptyResponse =>
                  (i = Len(calls[c].log) => calls[c].pc = "threw")

\* a process call returned content after an earlier provider's empty
\* result, and a processWith call failed on an empty result
C2_Witness ==
    /\ \E c \in CallIds :
          /\ calls[c].op = "process" /\ calls[c].pc = "returned"
          /\ calls[c].log[1].out = EmptyResponse
    /\ \E c \in CallIds :
          /\ calls[c].op = "processWith" /\ calls[c].pc = "threw"
          /\ Len(calls[c].log) = 1 /\ calls[c].log[1].out = EmptyResponse

\* C3: a process call in which every invoked provider failed or returned
\* empty content throws the aggregate error, and that error embeds the
\* message of the last failure; no provider's own error is what is thrown.
C3_AggregateEmbedsLast ==
    \A c \in CallIds :
        (calls[c].op = "process" /\ calls[c].pc = "threw" /\ Len(calls[c].log) >= 1) =>
            LET log == calls[c].log
            IN /\ \A i \in 1..Len(log) : Failed(log[i])
               /\ calls[c].error = AI_PROCESSING(log[Len(log)].out)
               /\ calls[c].error # Err(log[Len(log)].out, "")

\* a process call failed after two providers failed with different messages
C3_Witness ==
    \E c \in CallIds :
        /\ calls[c].op = "process" /\ calls[c].pc = "threw"
        /\ Len(calls[c].log) = 2
        /\ calls[c].log[1].out # calls[c].log[2].out

\* C4: within one call at most one provider request is in flight, and a
\* provider is invoked only after every provider invoked before it in the
\* call has completed with a failure or an empty result.
C4_Sequential ==
    \A c \in CallIds :
        LET log == calls[c].log
        IN /\ \A i \in 1..(Len(log) - 1) : Failed(log[i])
           /\ Cardinality({i \in 1..Len(log) : log[i].out = "pending"}) <= 1
           /\ (calls[c].pc = "await") <=> (Len(log) >= 1 /\ log[Len(log)].out = "pending")
           /\ calls[c].op = "process" =>
                 /\ calls[c].it = Len(log)
                 /\ Untouched => \A i \in 1..Len(log) : log[i].obj = ctorArg.list[i]

\* a process call has its third provider in flight
C4_Witness ==
    \E c \in CallIds :
        /\ calls[c].op = "process" /\ calls[c].pc = "await"
        /\ Len(calls[c].log) = 3

\* C5: the constructor fails with the configuration error for a missing
\* or empty provider list, so a constructed service was given a list that
\* is not empty.
C5_EmptyListRejected ==
    /\ svc = "ok" => (~ctorArg.isNull /\ Len(ctorArg.list) > 0)
    /\ (svc # "none" /\ (ctorArg.isNull \/ Len(ctorArg.list) = 0)) =>
           (svc = "failed" /\ ctorError = MISSING_API_KEYS)

\* the constructor was called with an empty array and threw
C5_Witness == svc = "failed" /\ ~ctorArg.isNull /\ ctorArg.list = <<>>

\* C6: after a successful construction the provider list is never empty,
\* whatever addProvider and removeProvider calls follow.
C6_ListNeverEmpty == svc = "ok" => Len(providers) > 0

\* C7: the providers of the list have pairwise distinct names.
C7_NamesDistinct ==
    svc = "ok" =>
        \A i, j \in 1..Len(providers) :
            i # j => NameOf(providers[i]) # NameOf(providers[j])

\* C8: processWith with a name that no provider of the list has fails with
\* the provider-not-found error, invokes no provider, and leaves the list
\* and every provider's model as they were.
C8_UnknownNameFails ==
    [][\A c \in CallIds, n \in Names :
          (/\ calls[c].op = "idle"
           /\ calls'[c].op = "processWith"
           /\ calls'[c].name = n
           /\ ~Registered(providers, n))
          => /\ calls'[c].pc = "threw"
             /\ calls'[c].error = Err("AI provider not found: ", n)
             /\ calls'[c].log = <<>>
             /\ \A d \in CallIds \ {c} : calls'[d] = calls[d]
             /\ providers' = providers
             /\ model' = model]_vars

\* a processWith call for a name that is not in the (non-empty) list failed
C8_Witness ==
    \E c \in CallIds :
        /\ calls[c].op = "processWith" /\ calls[c].pc = "threw"
        /\ calls[c].log = <<>>
        /\ calls[c].error = Err("AI provider not found: ", calls[c].name)
        /\ Len(providers) > 0 /\ Untouched

\* C9: when the named provider fails or returns empty content, processWith
\* throws the error process throws for a last failure with that message:
\* the aggregate-failure message embedding the failure's message.
C9_SameAggregateShape ==
    \A c \in CallIds :
        (calls[c].op = "processWith" /\ calls[c].pc = "threw" /\ Len(calls[c].log) >= 1) =>
            /\ Len(calls[c].log) = 1
            /\ Failed(calls[c].log[1])
            /\ calls[c].error = AggregateError(TRUE, calls[c].log[1].out)

\* a processWith call failed because its provider's request was rejected
C9_Witness ==
    \E c \in CallIds :
        /\ calls[c].op = "processWith" /\ calls[c].pc = "threw"
        /\ Len(calls[c].log) = 1 /\ calls[c].log[1].out \in ErrMsgs

\* C10: a processWith call given a model override for a provider that
\* supports model switching invokes the provider with the override as its
\* model and returns the override as AIResponse.model; for a provider that
\* does not support switching the override is ignored and the provider's
\* own model is reported.
C10_OverrideReported ==
    \A c \in CallIds :
        (calls[c].op = "processWith" /\ Len(calls[c].log) = 1 /\ Truthy(calls[c].override)) =>
            LET e == calls[c].log[1]
            IN IF HasSetModel(e.obj)
               THEN /\ e.model = calls[c].override
                    /\ calls[c].pc = "returned" => calls[c].result.model = calls[c].override
               ELSE /\ e.model = DefaultModel(e.obj)
                    /\ calls[c].pc = "returned" => calls[c].result.model = DefaultModel(e.obj)

\* the objects a call invoked, in order
Invoked(call) == [i \in 1..Len(call.log) |-> call.log[i].obj]

\* no object occurs twice in ps
Distinct(ps) == \A i, j \in 1..Len(ps) : ps[i] = ps[j] => i = j

\* C11: a process call attempts, in order, exactly the providers that were
\* in the list when it started, whatever addProvider and removeProvider
\* calls run while it is outstanding: the providers it invoked are a prefix
\* of the list at its start (adding none), and a call that fails has gone
\* through that whole list (skipping none). The second part is stated for
\* start lists without a repeated provider.
C11_SnapshotAtStart ==
    \A c \in CallIds :
        calls[c].op = "process" =>
            LET call == calls[c]
            IN /\ Len(call.log) <= Len(call.snap)
               /\ Invoked(call) = SubSeq(call.snap, 1, Len(call.log))
               /\ (call.pc = "threw" /\ Len(call.log) >= 1 /\ Distinct(call.snap)) =>
                      Len(call.log) = Len(call.snap)

\* a bookkeeping call of method op is made in this step
Bookkeeping(op) == configOps' = configOps + 1 /\ ret'.op = op

\* C13: getProviderNames and hasAvailableProviders leave the provider list
\* as it is; removeProvider with a name no provider has returns false and
\* leaves the list as it is; addProvider puts the provider at the end of
\* the list; a successful removeProvider takes out exactly the first
\* provider with that name; the other providers keep their order. None of
\* them touches a provider's model or an outstanding call.
C13_BookkeepingFrame ==
    [][/\ Bookkeeping("getProviderNames") =>
            providers' = providers /\ ret'.names = ProviderNames(providers)
       /\ Bookkeeping("hasAvailableProviders") =>
            providers' = providers /\ ret'.flag = (providers # <<>>)
       /\ Bookkeeping("addProvider") =>
            /\ Len(providers') = Len(providers) + 1
            /\ SubSeq(providers', 1, Len(providers)) = providers
       /\ Bookkeeping("removeProvider") =>
            LET name == ret'.names[1]
            IN IF Registered(providers, name)
               THEN /\ ret'.flag
                    /\ \E i \in 1..Len(providers) :
                          /\ NameOf(providers[i]) = name
                          /\ \A j \in 1..(i - 1) : NameOf(providers[j]) # name
                          /\ providers' = [k \in 1..(Len(providers) - 1) |->
                                              IF k < i THEN providers[k] ELSE providers[k + 1]]
               ELSE ~ret'.flag /\ providers' = providers
       /\ configOps' # configOps => model' = model /\ calls' = calls]_vars

\* removeProvider('Google Gemini') on the list [gemini, groq, gemini]
\* returned true and left [groq, gemini]
C13_Witness ==
    /\ ret = Returned("removeProvider", <<NameOf("g1")>>, TRUE)
    /\ ctorArg.list = <<"g1", "q1", "g1">>
    /\ providers = <<"q1", "g1">>

(* ======================= properties of providers ====================== *)
\* C12: every provider call is bounded by a fixed-wait timeout, so a call
\* of a provider's process that is waiting for its backend eventually
\* returns a result or fails (and with it the process / processWith call
\* of AIService that awaits it).
C12_ProviderCallEnds == (req.pc = "fetch") ~> (req.pc \in {"returned", "threw"})

\* a provider call that got an answer from its backend and has ended
Answered == req.pc \in {"returned", "threw"} /\ req.net = "arrived"

\* C15: a success-status response in which a key of the backend's
\* validation path is missing, or whose value at the end of the path is
\* null or undefined, makes process fail with the malformed-response
\* error before text extraction is attempted; the path is
\* candidates[0].content.parts[0].text for Gemini and
\* choices[0].message.content for Groq.
C15_MalformedReported ==
    LET path == IF req.backend = "gemini"
                THEN <<"candidates", "0", "content", "parts", "0", "text">>
                ELSE <<"choices", "0", "message", "content">>
    IN (/\ Answered /\ Ok(req.status) /\ req.data # Unparsable
        /\ Reach(req.data, path).t \in {"missing", "null", "undefined"})
       => /\ req.pc = "threw"
          /\ req.error = InvalidFormat(req.backend)
          /\ req.did = <<"json", "validateResponse">>

\* C16: a response with a non-success status never yields content: process
\* throws, for Gemini and 401 the invalid-key message, for Groq and 404
\* the model-not-found message, and for every other non-success status
\* what the shared handleAPIError throws; response.json() is not called.
C16_NonSuccessThrows ==
    (Answered /\ ~Ok(req.status)) =>
        /\ req.pc = "threw" /\ req.content = <<>>
        /\ req.did = <<>>
        /\ req.error =
              CASE req.backend = "gemini" /\ req.status = 401 -> GEMINI_INVALID_KEY
                [] req.backend = "groq" /\ req.status = 404 -> GROQ_MODEL_NOT_FOUND
                [] OTHER -> HandleAPIError(req.status, BackendName(req.backend))

\* Groq answered 404 with a body that has content, and process threw the
\* model-not-found error
C16_Witness ==
    /\ req.pc = "threw" /\ req.backend = "groq" /\ req.status = 404
    /\ req.data = GroqData(JObject([content |-> JString(<<"a">>)]))
    /\ req.error = GROQ_MODEL_NOT_FOUND

\* some word of the prompt is, in lower case, one of ws
HasWord(prompt, ws) == \E i \in 1..Len(prompt) : LowerWord(prompt[i]) \in ws

\* the prompt has the phrase 'youtube video', in any case
HasPhrase(prompt) ==
    \E i \in 1..(Len(prompt) - 2) :
        /\ LowerWord(prompt[i]) = "youtube"
        /\ prompt[i + 1] = " "
        /\ LowerWord(prompt[i + 2]) = "video"

\* the Gemini request body is the multimodal one exactly when video holds
MultimodalIff(video) ==
    req.backend = "gemini" =>
        IF video
        THEN /\ DOMAIN req.body = {"contents", "generationConfig",
                                   "useAudioVideoTokens", "systemInstruction"}
             /\ req.body.useAudioVideoTokens = TRUE
        ELSE DOMAIN req.body = {"contents", "generationConfig"}

\* C17: the Gemini request body carries useAudioVideoTokens = true and a
\* systemInstruction exactly when the prompt contains, in any case,
\* 'youtu.be/' or 'youtube.com/'; for every other prompt it has only
\* contents and generationConfig.
C17_HostFragmentsOnly == MultimodalIff(HasWord(req.prompt, {"youtu.be/", "youtube.com/"}))

\* C17 as amended: the Gemini request body carries useAudioVideoTokens =
\* true and a systemInstruction exactly when the prompt contains, in any
\* case, 'youtube video', 'youtu.be/' or 'youtube.com/'; for every other
\* prompt it has only contents and generationConfig.
C17_ThreeMarkers ==
    MultimodalIff(HasWord(req.prompt, {"youtu.be/", "youtube.com/"}) \/ HasPhrase(req.prompt))

\* a Gemini request for a prompt with 'YOUTU.BE/' in capitals carries the
\* multimodal flag
C17_Witness ==
    /\ req.backend = "gemini"
    /\ req.prompt = <<"x", " ", "YOUTU.BE/">>
    /\ req.body.useAudioVideoTokens = TRUE

(* ==================== properties of AIPromptService =================== *)
\* a prompt was built with one of the three built-in formats
BuiltIn == pb.pc = "done" /\ pb.format \in {"executive-summary", "detailed-guide", "brief"}

HasPiece(text, pieces) == \E i \in 1..Len(text) : text[i] \in pieces

\* none of the three arguments has a replacement pattern or the
\* placeholder of a later substitution, and none occurs inside another
PlainArguments ==
    /\ ~HasPiece(pb.title \o pb.videoUrl \o pb.description, {"$$", "$&", "$`", "$'"})
    /\ ~HasPiece(pb.title, {"{{URL}}", "{{DESCRIPTION}}"})
    /\ ~HasPiece(pb.videoUrl, {"{{DESCRIPTION}}"})
    /\ \A x, y \in {pb.title, pb.videoUrl, pb.description} : x # y => Count(x, y) = 0
    /\ pb.title # pb.videoUrl /\ pb.title # pb.description /\ pb.videoUrl # pb.description

C19_CustomBodyVerbatim ==
    (pb.pc = "done" /\ pb.format = "custom" /\ pb.customPrompt # <<>>) =>
        LET base == BaseContent(pb.title, pb.videoUrl, pb.description)
            n == Len(pb.prompt)
        IN /\ n >= Len(base) + Len(pb.customPrompt)
           /\ SubSeq(pb.prompt, 1, Len(base)) = base
           /\ SubSeq(pb.prompt, n - Len(pb.customPrompt) + 1, n) = pb.customPrompt
           /\ ~HasPiece(pb.prompt, {Heading(sk) : sk \in {"brief", "executive-summary", "detailed-guide"}})

\* C20: processAIResponse is idempotent: applied to its own result with
\* the same provider and model it returns that result.
C20_Idempotent == post.pc = "done" => post.twice = post.once

\* the pieces between the opening '---' line and the next '---', <<>> when
\* text does not open with a front-matter block
FrontMatter(text) ==
    IF Len(text) >= 2 /\ text[1] = "---" /\ text[2] = "\n"
       /\ \E n \in 3..Len(text) : text[n] = "---"
    THEN LET close == CHOOSE n \in 3..Len(text) :
                         text[n] = "---" /\ \A k \in 3..(n - 1) : text[k] # "---"
         IN SubSeq(text, 3, close - 1)
    ELSE <<>>

\* block has a line `key: value`, the value quoted or not
HasPair(block, key, value) ==
    \E i \in 1..Len(block) :
        /\ block[i] = key
        /\ (i = 1 \/ block[i - 1] = "\n")
        /\ \E quote \in {<<>>, <<"\"">>} :
              LET line == <<key, ":", " ">> \o quote \o value \o quote \o <<"\n">>
              IN /\ i + Len(line) - 1 <= Len(block)
                 /\ SubSeq(block, i, i + Len(line) - 1) = line

\* C21: for every non-empty model output, also one whose front matter
\* lacks the identity keys and plain text without front matter, the
\* document processAIResponse returns has a front-matter block with both
\* ai_provider and ai_model, their values non-empty and equal to the given
\* provider and model.
C21_IdentityInFrontMatter ==
    (post.pc = "done" /\ post.content # <<>> /\ post.provider # <<>> /\ post.model # <<>>) =>
        /\ HasPair(FrontMatter(post.once), "ai_provider", post.provider)
        /\ HasPair(FrontMatter(post.once), "ai_model", post.model)

\* C22: validatePrompt accepts a prompt exactly when it is a string with
\* more than 10 characters after trimming and fewer than 50000 characters
\* in all: it rejects the empty string, non-strings, a string of 5
\* characters and one of 60000, and accepts a string of 50 characters.
C22_ValidatePrompt ==
    vp.pc = "done" =>
        LET p == vp.prompt
        IN /\ vp.result <=>
                 /\ p.t = "string"
                 /\ p.core > 10
                 /\ p.lead + p.core + p.trail < 50000
           /\ p.t # "string" => ~vp.result
           /\ p \in {Str(0, 0, 0), Str(0, 5, 0), Str(0, 60000, 0)} => ~vp.result
           /\ p = Str(0, 50, 0) => vp.result

\* a prompt of 11 blanks around 5 characters was rejected
C22_Witness == vp.pc = "done" /\ vp.prompt = Str(11, 5, 11) /\ ~vp.result

\* C23: createAnalysisPrompt is a deterministic function of its arguments:
\* two calls with the same title, description, source URL and format
\* return the same prompt, whenever they are made.
C23_Deterministic == pb.pc = "twice" => pb.again = pb.prompt

\* C24: constructing a Gemini or Groq provider with an empty or missing
\* API key fails with the error of the base constructor, so no provider
\* exists, and none is ever called, without a key.
C24_KeyRequired ==
    req.pc # "idle" =>
        IF req.inst.apiKey \in {Undefined, ""}
        THEN /\ req.pc = "ctorThrew" /\ ~req.inst.made
             /\ req.error = Err("API key is required for AI provider", "")
        ELSE req.pc # "ctorThrew" /\ req.inst.made

\* new GeminiProvider('') threw
C24_Witness ==
    /\ req.pc = "ctorThrew"
    /\ req.inst = [backend |-> "gemini", apiKey |-> "", made |-> FALSE]

\* C25: process throws the aggregate error only after every provider of
\* the list has been invoked: no provider's failure ends the loop while a
\* later provider has not been tried, whatever the list holds, also when
\* one provider object occurs in it more than once. (Stated for lists that
\* no bookkeeping call has changed.)
C25_AllTriedBeforeFailure ==
    \A c \in CallIds :
        (calls[c].op = "process" /\ calls[c].pc = "threw" /\ Untouched
         /\ Len(calls[c].log) >= 1) =>
            Len(calls[c].log) = Len(providers)

\* C26: processWith invokes the named provider only, and once: when that
\* provider fails or returns empty content the call fails, and no other
\* provider of the list is tried.
C26_NamedProviderOnly ==
    \A c \in CallIds :
        calls[c].op = "processWith" =>
            LET log == calls[c].log
            IN /\ Len(log) <= 1
               /\ \A i \in 1..Len(log) : NameOf(log[i].obj) = calls[c].name
               /\ (Len(log) = 1 /\ Failed(log[1])) => calls[c].pc = "threw"
               /\ calls[c].pc = "returned" => Len(log) = 1 /\ log[1].out = "content"

\* processWith('Google Gemini', ...) failed on Gemini's failure with Groq
\* next in the list
C26_Witness ==
    \E c \in CallIds :
        /\ calls[c].op = "processWith" /\ calls[c].pc = "threw"
        /\ calls[c].name = NameOf("g1")
        /\ Len(calls[c].log) = 1 /\ Failed(calls[c].log[1])
        /\ providers = <<"g1", "q1">> /\ Untouched

\* a call that is not between its start and its end
AtRest(c) == calls[c].pc \in {"idle", "returned", "threw"}

\* C27: a model override given to processWith applies to that request
\* only: once every call has ended, each provider's model is again what it
\* was before the calls were made.
C27_OverrideUndone ==
    (\A c \in CallIds : AtRest(c)) => model = [o \in Obj |-> DefaultModel(o)]

HasBlock(text) ==
    /\ Len(text) >= 2 /\ text[1] = "---" /\ text[2] = "\n"
    /\ \E n \in 3..Len(text) : text[n] = "---"

\* the text after the closing delimiter of the front-matter block
Body(text) ==
    LET close == CHOOSE n \in 3..Len(text) :
                    text[n] = "---" /\ \A k \in 3..(n - 1) : text[k] # "---"
    IN SubSeq(text, close + 1, Len(text))

\* text with the placeholders replaced by the provider and the model
\* ('unknown' for a missing one)
Placeholders(text, provider, mdl) ==
    ReplaceAll(ReplaceAll(text, "__AI_PROVIDER__", IF provider = <<>> THEN <<"unknown">> ELSE provider),
               "__AI_MODEL__", IF mdl = <<>> THEN <<"unknown">> ELSE mdl)

\* C29: the repair of the front matter changes the front-matter block
\* only: an existing key/value pair is overwritten there and an absent key
\* is inserted there, and the text after the closing delimiter is what it
\* was, apart from the replacement of the placeholders.
C29_BodyUnchanged ==
    (post.pc = "done" /\ HasBlock(post.content)) =>
        /\ HasBlock(post.once)
        /\ Body(post.once) = Placeholders(Body(post.content), post.provider, post.model)

\* C30: for a temporary note created by the browser extension the URL
\* modal is opened at most once, whichever of the 'create' and
\* 'active-leaf-change' handlers run for the note and however their file
\* reads and timers interleave.
C30_ModalOnce == \A path \in NotePaths : plug.opened[path] <= 1

(* ==================== properties of YouTubeUrlModal =================== *)
\* run r of handleProcess has shown the processing state and not ended
InProgress(r) ==
    /\ r \in 1..Len(modal.runs)
    /\ modal.runs[r].pc \in {"validating", "extracting", "onProcess", "generating"}

\* C31: for one modal at most one handleProcess run is in progress, and so
\* at most one onProcess call outstanding, at any time: a click on the
\* process button or the Enter key while a run has not finished starts no
\* second run.
C31_OneRunAtATime ==
    \A r, q \in 1..MaxRuns : (InProgress(r) /\ InProgress(q)) => r = q

\* C32: while isProcessing is true the process button is disabled,
\* whatever debounce timer fires or preview fetch completes meanwhile.
C32_DisabledWhileProcessing == modal.isProcessing => modal.processDisabled

\* the completion state: the file path of the run is stored and the Open
\* Note button is visible
CompletionState(r) ==
    /\ r \in 1..Len(modal.runs)
    /\ modal.runs[r].pc = "completed"
    /\ modal.processedFilePath = modal.runs[r].filePath /\ modal.processedFilePath # ""
    /\ modal.openVisible

\* the error state: the Open Note button is hidden, the URL input enabled
\* and the step that was active marked as error
ErrorState(r) ==
    /\ r \in 1..Len(modal.runs)
    /\ modal.runs[r].pc = "failed"
    /\ ~modal.openVisible /\ ~modal.inputDisabled
    /\ modal.steps[modal.currentStepIndex] = "error"

C34_ValidUrlOnly ==
    \A i \in 1..Len(modal.onProcessCalls) :
        LET url == modal.onProcessCalls[i]
        IN url = Trim(url) /\ url # <<>> /\ IsValidYouTubeUrl(url)

\* onProcess was called with the trimmed URL while the memoized validation
\* result was that of an earlier, invalid input
C34_Witness ==
    /\ modal.onProcessCalls = << <<Url>> >>
    /\ modal.url = <<Url, Blank>>
    /\ modal.lastValidUrl = [defined |-> TRUE, url |-> <<"x">>] /\ ~modal.lastValidResult

(* ================= further properties of the services ================= *)
\* C35: when two processWith calls with different model overrides on the
\* same switchable provider overlap, each AIResponse returned carries the
\* override that was passed to its own call.
C35_OwnOverrideReturned ==
    \A c, d \in CallIds :
        (/\ c # d
         /\ calls[c].op = "processWith" /\ calls[d].op = "processWith"
         /\ Truthy(calls[c].override) /\ Truthy(calls[d].override)
         /\ calls[c].override # calls[d].override
         /\ Len(calls[c].log) = 1 /\ Len(calls[d].log) = 1
         /\ calls[c].log[1].obj = calls[d].log[1].obj
         /\ HasSetModel(calls[c].log[1].obj)
         /\ calls[c].pc = "returned") =>
            calls[c].result.model = calls[c].override

\* the request body GeminiProvider builds for prompt is the multimodal one
Multimodal(prompt) ==
    LET body == CreateRequestBody("gemini", prompt)
    IN /\ {"useAudioVideoTokens", "systemInstruction"} \subseteq DOMAIN body
       /\ body.useAudioVideoTokens = TRUE

\* C36: every prompt createAnalysisPrompt produces, for any title, URL,
\* description and format, makes GeminiProvider build its multimodal
\* request body, whether or not the title, URL or description mention a
\* video host.
C36_AlwaysMultimodal ==
    /\ pb.pc \in {"done", "twice"} => Multimodal(pb.prompt)
    /\ pb.pc = "twice" => Multimodal(pb.again)

\* a prompt for a video whose title, URL and description name no video host
C36_Witness ==
    /\ pb.pc = "done"
    /\ pb.title = <<"My title">> /\ pb.description = <<"About">>
    /\ pb.videoUrl = <<"https://", "example.com/v">>
    /\ ~IsVideoAnalysisHosts(pb.prompt)
    /\ Multimodal(pb.prompt)

(* ======================= properties of the plugin ====================== *)
\* C37: once onunload has run, no URL modal is opened and no video
\* processing is started any more, also not by the timers the create,
\* active-leaf-change and protocol handlers had set before: a call of
\* processYouTubeVideo made then throws before its first step.
C37_NothingAfterUnload ==
    [][plug.isUnloading =>
          /\ plug'.opened = plug.opened
          /\ \A v \in 1..Len(plug'.videos) :
                v > Len(plug.videos) =>
                    plug'.videos[v].pc = "threw" /\ plug'.videos[v].did = <<>>]_vars

\* after the unload the timer of a handler fired without opening a modal,
\* and a call of processYouTubeVideo threw at once
C37_Witness ==
    /\ plug.isUnloading
    /\ \E h \in 1..Len(plug.handlers) :
          /\ plug.handlers[h].pc = "returned" /\ plug.handlers[h].url # <<>>
          /\ plug.opened[plug.handlers[h].path] = 0
    /\ \E v \in 1..Len(plug.videos) : plug.videos[v].failedAt = "isUnloading"

\* the steps of a request whose note is written, in order
StepsToSave ==
    <<"validateSettings", "extractVideoId", "getVideoData", "createAnalysisPrompt",
      "process", "processAIResponse", "saveToFile">>

\* saveToFile is among the steps v has taken
Saved(v) == \E i \in 1..Len(v.did) : v.did[i] = "saveToFile"

\* C38: processYouTubeVideo calls saveToFile only after the video data was
\* fetched, the prompt built and the AI call returned a response that is
\* not empty; when the settings validation, the video-id extraction, the
\* data fetch or the AI call fails, saveToFile is never called.
C38_SaveLast ==
    \A i \in 1..Len(plug.videos) :
        LET v == plug.videos[i]
        IN /\ Saved(v) => v.did = StepsToSave /\ IsNonEmpty(v.content)
           /\ v.failedAt \in {"isUnloading", "validateSettings", "extractVideoId",
                              "getVideoData", "process"} => ~Saved(v)

\* a request whose AI call failed, and one whose note was written
C38_Witness ==
    \E i \in 1..Len(plug.videos) :
        plug.videos[i].pc = "threw" /\ plug.videos[i].failedAt = "process"
        /\ plug.videos[i].did = SubSeq(StepsToSave, 1, 5)

(* =================== properties of YouTubeVideoService ================= *)
\* C39: getVideoData never fails because of the description: when the
\* video page cannot be fetched or read, the description is the fixed
\* extraction-failed text, stored in the cache like a real description;
\* a failure of the metadata always makes getVideoData fail, and then
\* nothing is stored under the key of the video data.
C39_DescriptionNeverFails ==
    LET call == vd.call
    IN /\ call.description # "rejected"
       /\ (call.pc = "threw" /\ call.videoId # "") => call.metadata = "rejected"
       /\ call.pageFailed =>
             /\ call.description = "resolved" /\ call.text = EXTRACTION_FAILED
             /\ \E i \in 1..Len(call.sets) :
                   call.sets[i] = <<"description", CachedText(EXTRACTION_FAILED)>>
             /\ call.pc = "returned" => call.result.description = EXTRACTION_FAILED
       /\ call.metadata = "rejected" =>
             /\ call.pc \in {"await", "threw"}
             /\ \A i \in 1..Len(call.sets) : call.sets[i][1] # "video-data"
             /\ vd.cache["video-data"] = NotCached

\* the page could not be fetched, and getVideoData returned video data with
\* the fallback description and cached it
C39_Witness ==
    /\ vd.call.pc = "returned" /\ vd.call.pageFailed
    /\ vd.call.result = VideoData("My title", EXTRACTION_FAILED)
    /\ vd.cache["video-data"] = vd.call.result
    /\ vd.cache["description"] = CachedText(EXTRACTION_FAILED)

\* C40: the model reported in an AIResponse produced by GeminiProvider is
\* the model the outbound request was addressed to, so that giving the
\* provider another model changes the model the request targets.
C40_ReportedIsAddressed ==
    \A c \in CallIds :
        (calls[c].pc = "returned" /\ calls[c].result.provider = "Google Gemini") =>
            calls[c].result.model = calls[c].log[Len(calls[c].log)].target

====
